---- MODULE Spec2Model ----
(***************************************************************************)
(* Model of the SpectroNeph firmware core: the line-framed JSON command    *)
(* protocol (Protocol::update, Protocol::processCommand and the command    *)
(* handlers) and the main loop that drives it together with the stream     *)
(* scheduler.                                                              *)
(*                                                                         *)
(* A "byte" of the transport is a symbol.  "LF", "CR" and "NUL" are the    *)
(* three bytes the framer treats specially; every other symbol stands for  *)
(* a run of text bytes (a brace, one JSON member, ...) that the framer     *)
(* copies as it is.  The line buffer's size and the width of `int` are     *)
(* scaled down so that overlong lines and out-of-range numbers are among   *)
(* the inputs.                                                             *)
(***************************************************************************)
EXTENDS Integers, Sequences, FiniteSets, TLC

VARIABLES
    rx,             \* bytes waiting in the serial receive buffer
    commandBuffer,  \* Protocol::commandBuffer, char[JSON_BUFFER_SIZE]
    bufferPos,      \* Protocol::bufferPos
    commandQueue,   \* Protocol::commandQueue, vector<String>
    commandHandlers,\* Protocol::commandHandlers, map name -> handler
    pc,             \* position of the single thread inside loop()
    activeStreams,  \* StreamingManager::activeStreams, map type -> DataStream
    sensor,         \* the fields of AS7341Driver
    now,            \* millis()
    tx,             \* lines written to the transport since loop() was entered
    calls,          \* handlers and producers invoked since loop() was entered
    consumed,       \* bytes read since a call of update last found the buffer empty
    framed,         \* records pushed on commandQueue out of those bytes
    fragmented,     \* the last update call ended a record that an earlier call began
    arrived,        \* number of arrivals on the transport so far
    boots,          \* number of restarts so far
    iteration,      \* the calls loop() has made since it was entered
    lastActivityTime \* PowerManagement::lastActivityTime

vars == <<rx, commandBuffer, bufferPos, commandQueue, commandHandlers, pc,
          activeStreams, sensor, now, tx, calls, consumed, framed, fragmented,
          arrived, boots, iteration, lastActivityTime>>

----------------------------------------------------------------------------
(* Bounds of the model *)

\* size of the line buffer in symbols (JSON_BUFFER_SIZE scaled down)
BufSize == 4
\* lines the host sends under Spec
MaxArrive == 2
\* bytes the host sends under SpecFramer
MaxBytes == 5
\* stream commands the host sends under SpecStreams
MaxStreamLines == 4
\* stream commands the host sends twice in a row under SpecBursts
MaxBursts == 2
\* stream commands the host sends under SpecLive
MaxLiveLines == 2
\* commands the host sends under SpecCommands
MaxCommandLines == 3
\* lines the host sends in one go under SpecBatches (one more than CMD_BUFFER_SIZE)
MaxBatch == 6
\* times the host sends lines under SpecBatches
MaxBatches == 2
\* the number of instants of the millisecond clock at which loop() is entered
ClockPoints == 4
\* int is IntBits wide (32 scaled down)
IntBits == 4
\* uint32_t is UIntBits wide (32 scaled down, MAX_STREAM_INTERVAL_MS fits)
UIntBits == 17

JSON_BUFFER_SIZE == BufSize
INT_MAX == 2 ^ (IntBits - 1) - 1
INT_MIN == 0 - 2 ^ (IntBits - 1)
UINT32_MAX == 2 ^ UIntBits - 1
UINT16_MAX == 2 ^ 16 - 1
UINT8_MAX == 2 ^ 8 - 1

----------------------------------------------------------------------------
(* Program constants *)

CMD_BUFFER_SIZE == 5
SLEEP_AFTER_IDLE_MS == 60000
MAX_DATA_STREAMS == 3
MIN_STREAM_INTERVAL_MS == 10
MAX_STREAM_INTERVAL_MS == 60000
DEFAULT_STREAM_INTERVAL_MS == 100
DEFAULT_GAIN == 5
DEFAULT_ATIME == 100
DEFAULT_LED_CURRENT == 10
MAX_LED_CURRENT == 20

\* StatusCode
SUCCESS == 0
INVALID_COMMAND == 1
EXECUTION_ERROR == 3

----------------------------------------------------------------------------
(* The millisecond clock.  millis() is a uint32_t that wraps; loop() is     *)
(* followed at the instants of ClockValues, in their order round the clock: *)
(* two neighbours on each side of the first interval's end and of the wrap. *)

Instants ==
    <<0, MIN_STREAM_INTERVAL_MS - 1, MIN_STREAM_INTERVAL_MS, UINT32_MAX,
      DEFAULT_STREAM_INTERVAL_MS, MAX_STREAM_INTERVAL_MS>>

ClockValues == {Instants[i] : i \in 1 .. ClockPoints}

\* the instant that follows t
NextInstant(t) ==
    IF \E u \in ClockValues : u > t
    THEN CHOOSE u \in ClockValues : u > t /\ \A v \in ClockValues : v > t => u <= v
    ELSE CHOOSE u \in ClockValues : \A v \in ClockValues : u <= v

\* a variant of the difference that is not taken modulo 2^32
SignedDiff(a, b) == a - b

\* a - b in uint32_t
UIntDiff(a, b) == (a - b) % (UINT32_MAX + 1)

----------------------------------------------------------------------------
(* Bytes and strings *)

\* F applied to the value of v: a local variable that is computed once
Bind(v, F(_)) == CHOOSE r \in {F(x) : x \in {v}} : TRUE

LF == "LF"
CR == "CR"
NUL == "NUL"

\* memset(commandBuffer, 0, JSON_BUFFER_SIZE)
ZeroBuffer == [i \in 0 .. JSON_BUFFER_SIZE - 1 |-> NUL]

\* String(const char *): the bytes from index i up to the first NUL (strlen)
RECURSIVE CStringFrom(_, _)
CStringFrom(buf, i) ==
    IF i \notin DOMAIN buf THEN <<>>
    ELSE IF buf[i] = NUL THEN <<>>
    ELSE <<buf[i]>> \o CStringFrom(buf, i + 1)

CString(buf) == CStringFrom(buf, 0)

----------------------------------------------------------------------------
(* Line framer: the first loop of Protocol::update *)

\* a variant of the body that treats CR as it treats LF
FeedCharCrEnds(f, c) ==
    IF c # LF /\ c # CR
    THEN IF f.pos < JSON_BUFFER_SIZE - 1
         THEN [f EXCEPT !.buf[f.pos] = c, !.pos = f.pos + 1]
         ELSE f
    ELSE [buf |-> ZeroBuffer,
          pos |-> 0,
          queue |-> IF f.pos > 0
                    THEN Append(f.queue, CString([f.buf EXCEPT ![f.pos] = NUL]))
                    ELSE f.queue]

\* a variant of the body that lets the position reach the size of the buffer
FeedCharToTheEnd(f, c) ==
    IF c # LF /\ c # CR
    THEN IF f.pos < JSON_BUFFER_SIZE
         THEN [f EXCEPT !.buf[f.pos] = c, !.pos = f.pos + 1]
         ELSE f
    ELSE IF c = LF
         THEN [buf |-> ZeroBuffer,
               pos |-> 0,
               queue |-> IF f.pos > 0
                         THEN Append(f.queue, CString(f.buf))
                         ELSE f.queue]
         ELSE f

\* one pass of the read loop's body for the byte c; f = [buf, pos, queue]
FeedChar(f, c) ==
    IF c # LF /\ c # CR
    THEN IF f.pos < JSON_BUFFER_SIZE - 1
         THEN [f EXCEPT !.buf[f.pos] = c, !.pos = f.pos + 1]
         ELSE f
    ELSE IF c = LF
         THEN LET term == [f.buf EXCEPT ![f.pos] = NUL]
              IN  [buf |-> ZeroBuffer,
                   pos |-> 0,
                   queue |-> IF f.pos > 0
                             THEN Append(f.queue, CString(term))
                             ELSE f.queue]
         ELSE f

\* while (Serial.available() > 0): every waiting byte goes through the body
RECURSIVE ReadAll(_, _)
ReadAll(f, bytes) ==
    IF bytes = <<>> THEN f
    ELSE Bind(FeedChar(f, Head(bytes)), LAMBDA g : ReadAll(g, Tail(bytes)))

----------------------------------------------------------------------------
(* JSON text.  A symbol that starts with "{" stands for the opening brace  *)
(* of an object together with its members, "}" for the closing brace, "7"  *)
(* for a JSON number standing alone; any other symbol is no JSON.          *)

\* the opening symbols and the members each carries, as the host wrote them
Opening ==
    ("{ping7" :> [cmd |-> "ping", id |-> 7, params |-> <<>>])
    @@ ("{pingNeg" :> [cmd |-> "ping", id |-> -2])
    @@ ("{pingOver" :> [cmd |-> "ping", id |-> INT_MAX + 1])
    @@ ("{pingUnder" :> [cmd |-> "ping", id |-> INT_MIN - 1])
    @@ ("{pingNoId" :> [cmd |-> "ping"])
    @@ ("{nope1" :> [cmd |-> "nope", id |-> 1])
    @@ ("{nopeOver" :> [cmd |-> "nope", id |-> INT_MAX + 1])
    @@ ("{id1" :> [id |-> 1, params |-> <<>>])
    @@ ("{reset" :> [cmd |-> "reset", id |-> 2])
    @@ ("{info" :> [cmd |-> "get_info", id |-> 3])
    @@ ("{init" :> [cmd |-> "as7341_init", id |-> 3])
    @@ ("{config" :> [cmd |-> "as7341_config", id |-> 4,
                      params |-> [gain |-> 11, integration_time |-> 50]])
    @@ ("{read" :> [cmd |-> "as7341_read", id |-> 4])
    @@ ("{led" :> [cmd |-> "as7341_led", id |-> 5,
                   params |-> [enabled |-> TRUE, current |-> 25]])
    @@ ("{start" :> [cmd |-> "stream_start", id |-> 5,
                     params |-> [type |-> "as7341", interval_ms |-> 100]])
    @@ ("{startOther" :> [cmd |-> "stream_start", id |-> 6,
                          params |-> [type |-> "other", interval_ms |-> 1]])
    @@ ("{stop" :> [cmd |-> "stream_stop", id |-> 6, params |-> [type |-> "as7341"]])
    @@ ("{streams" :> [cmd |-> "get_streams", id |-> 6])
    @@ ("{diag" :> [cmd |-> "diagnostics", id |-> 0])

\* the opening symbols of the stream commands the host sends under SpecStreams
StreamOpening ==
    ("{startMin" :> [cmd |-> "stream_start", id |-> 1,
                     params |-> [type |-> "as7341", interval_ms |-> 1]])
    @@ ("{startMax" :> [cmd |-> "stream_start", id |-> 1,
                        params |-> [type |-> "as7341", interval_ms |-> 100000]])
    @@ ("{startNeg" :> [cmd |-> "stream_start", id |-> 1,
                        params |-> [type |-> "as7341", interval_ms |-> -5]])
    @@ ("{startHuge" :> [cmd |-> "stream_start", id |-> 1,
                         params |-> [type |-> "as7341",
                                     interval_ms |-> UINT32_MAX + 1]])
    @@ ("{startThird" :> [cmd |-> "stream_start", id |-> 1,
                          params |-> [type |-> "third"]])
    @@ ("{startZeta" :> [cmd |-> "stream_start", id |-> 1,
                         params |-> [type |-> "zeta", interval_ms |-> 60000]])
    @@ ("{stopOther" :> [cmd |-> "stream_stop", id |-> 1, params |-> [type |-> "other"]])

\* the opening symbols of further commands the host sends under SpecCommands
ConfigOpening ==
    ("{configOk" :> [cmd |-> "as7341_config", id |-> 4,
                     params |-> [gain |-> 3, integration_time |-> 50,
                                 led_current |-> 5]])
    @@ ("{configGain" :> [cmd |-> "as7341_config", id |-> 4,
                          params |-> [gain |-> UINT8_MAX + 1]])
    @@ ("{configTime" :> [cmd |-> "as7341_config", id |-> 4,
                          params |-> [integration_time |-> 2000]])
    @@ ("{configLed" :> [cmd |-> "as7341_config", id |-> 4,
                         params |-> [led_current |-> 25]])
    @@ ("{startNoType" :> [cmd |-> "stream_start", id |-> 5,
                           params |-> [interval_ms |-> 10]])
    @@ ("{stopNoType" :> [cmd |-> "stream_stop", id |-> 6])
    @@ ("{resetNoId" :> [cmd |-> "reset"])

\* every opening symbol and its members
Members == Opening @@ StreamOpening @@ ConfigOpening

ParseError(code) == [error |-> code, isObject |-> FALSE, obj |-> <<>>]

\* deserializeJson(doc, cmdStr): the parser stops at the end of the first
\* value; what follows an object is not read, what follows a number is an error
deserializeJson(s) ==
    IF s = <<>> THEN ParseError("EmptyInput")
    ELSE IF s[1] \in DOMAIN Members
         THEN IF Len(s) = 1 THEN ParseError("IncompleteInput")
              ELSE IF s[2] = "}"
                   THEN [error |-> "Ok", isObject |-> TRUE, obj |-> Members[s[1]]]
                   ELSE ParseError("InvalidInput")
    ELSE IF s[1] = "7" /\ Len(s) = 1
         THEN [error |-> "Ok", isObject |-> FALSE, obj |-> <<>>]
    ELSE ParseError("InvalidInput")

\* object.containsKey(key)
containsKey(obj, key) == key \in DOMAIN obj

\* object[key].as<int>(): an integer that does not fit int reads as 0, and so
\* does a member that is absent
AsInt(obj, key) ==
    IF containsKey(obj, key)
    THEN IF obj[key] >= INT_MIN /\ obj[key] <= INT_MAX THEN obj[key] ELSE 0
    ELSE 0

\* variant.as<uint8_t>(), as<uint16_t>(), as<uint32_t>(): as for int
AsUInt(v, max) == IF v >= 0 /\ v <= max THEN v ELSE 0

\* params.containsKey(key) ? params[key] : def, read as an unsigned integer
UIntParam(params, key, max, def) ==
    IF containsKey(params, key) THEN AsUInt(params[key], max) ELSE def

\* params.containsKey(key) ? params[key].as<bool>() : false
BoolParam(params, key) ==
    IF containsKey(params, key) THEN params[key] = TRUE ELSE FALSE

----------------------------------------------------------------------------
(* AS7341Driver.  hw tells whether the chip answers on the bus during the  *)
(* call.  Every operation yields [ok, s, log]: its result, the driver's    *)
(* fields after it and the debug lines it prints.                          *)

DriverAtStart ==
    [initialized |-> FALSE, currentGain |-> DEFAULT_GAIN,
     currentIntegrationTime |-> DEFAULT_ATIME,
     currentLedCurrent |-> DEFAULT_LED_CURRENT,
     ledEnabled |-> FALSE, externalLedEnabled |-> FALSE]

\* AS7341Driver::configure once the driver is initialized
ConfigureBody(s, hw, gain, integrationTime, ledCurrent) ==
    LET gainOk == gain <= 10
        timeOk == integrationTime >= 1 /\ integrationTime <= 1000
        ledOk  == ~s.ledEnabled \/ ledCurrent <= MAX_LED_CURRENT
        s1 == [s EXCEPT !.currentGain = IF gainOk THEN gain ELSE DEFAULT_GAIN,
                        !.currentIntegrationTime =
                            IF timeOk THEN integrationTime ELSE DEFAULT_ATIME]
        s2 == IF s.ledEnabled
              THEN [s1 EXCEPT !.currentLedCurrent =
                        IF ledCurrent > MAX_LED_CURRENT THEN MAX_LED_CURRENT
                        ELSE ledCurrent]
              ELSE s1
    IN  [ok |-> gainOk /\ timeOk /\ ledOk /\ hw,
         s |-> s2,
         log |-> (IF gainOk THEN <<>> ELSE <<"Invalid gain value">>)
                 \o (IF timeOk THEN <<>> ELSE <<"Integration time out of range">>)
                 \o (IF hw THEN <<>> ELSE <<"Failed to set gain", "Failed to set integration time">>)
                 \o (IF ledOk THEN <<>> ELSE <<"LED current limited">>)
                 \o (IF s.ledEnabled /\ ~hw THEN <<"Failed to set LED current">> ELSE <<>>)
                 \o <<"AS7341 configured">>]

\* AS7341Driver::begin
Begin(s, hw) ==
    IF ~hw
    THEN [ok |-> FALSE, s |-> [s EXCEPT !.initialized = FALSE],
          log |-> <<"Could not find AS7341">>]
    ELSE Bind(ConfigureBody([s EXCEPT !.initialized = TRUE], hw,
                            DEFAULT_GAIN, DEFAULT_ATIME, DEFAULT_LED_CURRENT),
              LAMBDA c : [ok |-> TRUE, s |-> c.s,
                          log |-> <<"AS7341 initialized">> \o c.log])

\* if (!initialized && !begin()) return false;
EnsureBegun(s, hw) ==
    IF s.initialized THEN [ok |-> TRUE, s |-> s, log |-> <<>>] ELSE Begin(s, hw)

\* AS7341Driver::configure
Configure(s, hw, gain, integrationTime, ledCurrent) ==
    Bind(EnsureBegun(s, hw), LAMBDA b :
        IF ~b.ok THEN b
        ELSE Bind(ConfigureBody(b.s, hw, gain, integrationTime, ledCurrent),
                  LAMBDA c : [c EXCEPT !.log = b.log \o c.log]))

\* AS7341Driver::setLed
SetLed(s, hw, enable, current) ==
    Bind(EnsureBegun(s, hw), LAMBDA b :
        IF ~b.ok THEN b
        ELSE [ok |-> TRUE,
              s |-> [b.s EXCEPT !.currentLedCurrent =
                                    IF current > MAX_LED_CURRENT THEN MAX_LED_CURRENT
                                    ELSE current,
                                !.ledEnabled = enable],
              log |-> b.log
                      \o (IF current > MAX_LED_CURRENT THEN <<"LED current limited">> ELSE <<>>)
                      \o <<"AS7341 LED">>])

\* AS7341Driver::setExternalLed: LED_PIN is -1, no external LED is configured
SetExternalLed(s, enable) ==
    [ok |-> FALSE, s |-> s, log |-> <<"External LED not configured">>]

\* the ten channels readSpectralData writes; their values are not modelled
Readings ==
    [F1 |-> "raw", F2 |-> "raw", F3 |-> "raw", F4 |-> "raw", F5 |-> "raw",
     F6 |-> "raw", F7 |-> "raw", F8 |-> "raw", Clear |-> "raw", NIR |-> "raw"]

\* AS7341Driver::readSpectralData
ReadSpectralData(s, hw) ==
    Bind(EnsureBegun(s, hw), LAMBDA b :
        IF ~b.ok THEN b
        ELSE IF ~hw THEN [ok |-> FALSE, s |-> b.s, log |-> b.log \o <<"Failed to read channels">>]
        ELSE [ok |-> TRUE, s |-> b.s, log |-> b.log])

\* AS7341Driver::getConfiguration
GetConfiguration(s) ==
    [gain |-> s.currentGain, integration_time |-> s.currentIntegrationTime,
     led_current |-> s.currentLedCurrent, led_enabled |-> s.ledEnabled,
     external_led_enabled |-> s.externalLedEnabled]

\* AS7341Driver::isConnected
IsConnected(s, hw) ==
    Bind(IF ~s.initialized /\ hw THEN Begin(s, hw)
         ELSE [ok |-> s.initialized, s |-> s, log |-> <<>>],
         LAMBDA b : [ok |-> b.s.initialized, s |-> b.s, log |-> b.log])

----------------------------------------------------------------------------
(* StreamingManager.  The map activeStreams is the set of its DataStream   *)
(* values, at most one for a type; std::map iterates in the order of the   *)
(* keys, which StreamKeys lists for the types of the model.                *)

\* a variant of the iteration order: the keys from the largest to the smallest
StreamKeysDescending == <<"zeta", "third", "other", "as7341">>

StreamKeys == <<"as7341", "other", "third", "zeta">>

HasStream(streams, type) == \E d \in streams : d.type = type

StreamOf(streams, type) == CHOOSE d \in streams : d.type = type

\* the interval startStream stores for the interval it is handed
Limited(intervalMs) ==
    IF intervalMs < MIN_STREAM_INTERVAL_MS THEN MIN_STREAM_INTERVAL_MS
    ELSE IF intervalMs > MAX_STREAM_INTERVAL_MS THEN MAX_STREAM_INTERVAL_MS
    ELSE intervalMs

\* the map after activeStreams[type] is written by startStream
WithEntry(streams, type, intervalMs) ==
    {d \in streams : d.type # type}
    \cup {[type |-> type, intervalMs |-> intervalMs, lastUpdateMs |-> 0,
           active |-> TRUE]}

\* a variant of startStream without the check of the number of streams
StartStreamNoCap(streams, type, intervalMs) ==
    [ok |-> TRUE, streams |-> WithEntry(streams, type, Limited(intervalMs)),
     log |-> <<"Started stream">>]

\* a variant of startStream that takes the reference activeStreams[type],
\* which creates the entry, before it checks the number of streams
StartStreamEntryFirst(streams, type, intervalMs) ==
    IF Cardinality(streams) >= MAX_DATA_STREAMS /\ ~HasStream(streams, type)
    THEN [ok |-> FALSE,
          streams |-> streams \cup {[type |-> type, intervalMs |-> 0,
                                     lastUpdateMs |-> 0, active |-> FALSE]},
          log |-> <<"Maximum number of streams reached">>]
    ELSE StartStreamNoCap(streams, type, intervalMs)

\* a variant of startStream that adds the interval to the one the stream has
StartStreamAddsInterval(streams, type, intervalMs) ==
    IF Cardinality(streams) >= MAX_DATA_STREAMS /\ ~HasStream(streams, type)
    THEN [ok |-> FALSE, streams |-> streams,
          log |-> <<"Maximum number of streams reached">>]
    ELSE [ok |-> TRUE,
          streams |-> WithEntry(streams, type,
                          Limited((IF HasStream(streams, type)
                                   THEN StreamOf(streams, type).intervalMs ELSE 0)
                                  + Limited(intervalMs))),
          log |-> <<"Started stream">>]

\* a variant of startStream whose check of the number of streams does not
\* look whether the type is present
StartStreamCountOnly(streams, type, intervalMs) ==
    IF Cardinality(streams) >= MAX_DATA_STREAMS
    THEN [ok |-> FALSE, streams |-> streams,
          log |-> <<"Maximum number of streams reached">>]
    ELSE StartStreamNoCap(streams, type, intervalMs)

\* StreamingManager::startStream
StartStream(streams, type, intervalMs) ==
    LET low == IF intervalMs < MIN_STREAM_INTERVAL_MS
               THEN MIN_STREAM_INTERVAL_MS ELSE intervalMs
        interval == IF low > MAX_STREAM_INTERVAL_MS
                    THEN MAX_STREAM_INTERVAL_MS ELSE low
        limits == (IF intervalMs < MIN_STREAM_INTERVAL_MS
                   THEN <<"Stream interval limited to minimum">> ELSE <<>>)
                  \o (IF low > MAX_STREAM_INTERVAL_MS
                      THEN <<"Stream interval limited to maximum">> ELSE <<>>)
    IN  IF Cardinality(streams) >= MAX_DATA_STREAMS /\ ~HasStream(streams, type)
        THEN [ok |-> FALSE, streams |-> streams,
              log |-> limits \o <<"Maximum number of streams reached">>]
        ELSE [ok |-> TRUE,
              streams |-> {d \in streams : d.type # type}
                          \cup {[type |-> type, intervalMs |-> interval,
                                 lastUpdateMs |-> 0, active |-> TRUE]},
              log |-> limits \o <<"Started stream">>]

\* a variant of stopStream that erases every entry
StopStreamClears(streams, type) ==
    IF ~HasStream(streams, type)
    THEN [ok |-> FALSE, streams |-> streams, log |-> <<"Stream not found">>]
    ELSE [ok |-> TRUE, streams |-> {}, log |-> <<"Stopped stream">>]

\* a variant of stopStream that deactivates the stream and keeps its entry
StopStreamKeepsEntry(streams, type) ==
    IF ~HasStream(streams, type)
    THEN [ok |-> FALSE, streams |-> streams, log |-> <<"Stream not found">>]
    ELSE [ok |-> TRUE,
          streams |-> {IF d.type = type THEN [d EXCEPT !.active = FALSE] ELSE d :
                       d \in streams},
          log |-> <<"Stopped stream">>]

\* StreamingManager::stopStream
StopStream(streams, type) ==
    IF ~HasStream(streams, type)
    THEN [ok |-> FALSE, streams |-> streams, log |-> <<"Stream not found">>]
    ELSE [ok |-> TRUE, streams |-> {d \in streams : d.type # type},
          log |-> <<"Stopped stream">>]

\* StreamingManager::isStreamActive
IsStreamActive(streams, type) ==
    HasStream(streams, type) /\ StreamOf(streams, type).active

\* StreamingManager::getActiveStreams: the entries from key i on, in key order
RECURSIVE GetActiveStreams(_, _)
GetActiveStreams(streams, i) ==
    IF i > Len(StreamKeys) THEN <<>>
    ELSE (IF IsStreamActive(streams, StreamKeys[i])
          THEN <<[type |-> StreamKeys[i],
                  interval_ms |-> StreamOf(streams, StreamKeys[i]).intervalMs]>>
          ELSE <<>>)
         \o GetActiveStreams(streams, i + 1)

\* a variant of stopAllStreams that stops the stream of the first key only
StopAllStreamsFirst(streams, i) ==
    IF streams = {} THEN [streams |-> streams, log |-> <<"Stopped all streams">>]
    ELSE Bind(StopStream(streams,
                         StreamKeys[CHOOSE k \in DOMAIN StreamKeys :
                                        /\ HasStream(streams, StreamKeys[k])
                                        /\ \A j \in 1 .. k - 1 :
                                               ~HasStream(streams, StreamKeys[j])]),
              LAMBDA one : [one EXCEPT !.log = one.log \o <<"Stopped all streams">>])

\* StreamingManager::stopAllStreams: stopStream for every key, in key order
RECURSIVE StopAllStreams(_, _)
StopAllStreams(streams, i) ==
    IF i > Len(StreamKeys) THEN [streams |-> streams, log |-> <<"Stopped all streams">>]
    ELSE IF HasStream(streams, StreamKeys[i])
         THEN Bind(StopStream(streams, StreamKeys[i]), LAMBDA one :
                  Bind(StopAllStreams(one.streams, i + 1), LAMBDA rest :
                      [rest EXCEPT !.log = one.log \o rest.log]))
         ELSE StopAllStreams(streams, i + 1)

----------------------------------------------------------------------------
(* Command handlers (commands.cpp).  A handler gets the params object, the *)
(* driver's fields s, the stream set, hw and the clock, and yields         *)
(* [data, s, streams, log, restart]: the response object it filled, the    *)
(* state it leaves, the debug lines printed on its way and whether it      *)
(* restarted the device instead of returning.                              *)

Returned(data, s, streams, log) ==
    [data |-> data, s |-> s, streams |-> streams, log |-> log, restart |-> FALSE]

handlePing(params, s, streams, hw, t) ==
    Returned([pong |-> TRUE, time |-> t], s, streams, <<>>)

handleGetInfo(params, s, streams, hw, t) ==
    Bind(IsConnected(s, hw), LAMBDA c1 : Bind(IsConnected(c1.s, hw), LAMBDA c2 :
        Returned(IF c2.ok
                 THEN [name |-> "AS7341 Nephelometer", version |-> "0.1.0", uptime |-> t,
                       hardware |-> [chip |-> "ESP32"],
                       sensor |-> [type |-> "AS7341", connected |-> c1.ok,
                                   config |-> GetConfiguration(c2.s)]]
                 ELSE [name |-> "AS7341 Nephelometer", version |-> "0.1.0", uptime |-> t,
                       hardware |-> [chip |-> "ESP32"],
                       sensor |-> [type |-> "AS7341", connected |-> c1.ok]],
                 c2.s, streams, c1.log \o c2.log)))

handleAs7341Init(params, s, streams, hw, t) ==
    Bind(Begin(s, hw), LAMBDA b :
        Returned(IF b.ok THEN [initialized |-> TRUE]
                 ELSE [error |-> "Failed to initialize AS7341", initialized |-> FALSE],
                 b.s, streams, b.log))

handleAs7341Config(params, s, streams, hw, t) ==
    Bind(Configure(s, hw,
                   UIntParam(params, "gain", UINT8_MAX, DEFAULT_GAIN),
                   UIntParam(params, "integration_time", UINT16_MAX, DEFAULT_ATIME),
                   UIntParam(params, "led_current", UINT8_MAX, DEFAULT_LED_CURRENT)),
         LAMBDA c :
        Returned(IF c.ok THEN GetConfiguration(c.s)
                 ELSE [warning |-> "Some configuration parameters were invalid"]
                      @@ GetConfiguration(c.s),
                 c.s, streams, c.log))

handleAs7341Read(params, s, streams, hw, t) ==
    Bind(ReadSpectralData(s, hw), LAMBDA r :
        Returned(IF r.ok THEN Readings
                 ELSE [error |-> "Failed to read spectral data"],
                 r.s, streams, r.log))

handleAs7341Led(params, s, streams, hw, t) ==
    LET enable == BoolParam(params, "enabled")
        current == UIntParam(params, "current", UINT8_MAX, DEFAULT_LED_CURRENT)
    IN  IF BoolParam(params, "external")
        THEN Bind(SetExternalLed(s, enable), LAMBDA r :
                 Returned([type |-> "external", error |-> "Failed to control LED",
                           enabled |-> enable],
                          r.s, streams, r.log))
        ELSE Bind(SetLed(s, hw, enable, current), LAMBDA r :
                 Returned(IF r.ok
                          THEN [type |-> "onboard", enabled |-> enable, current |-> current]
                          ELSE [type |-> "onboard", error |-> "Failed to control LED",
                                enabled |-> enable, current |-> current],
                          r.s, streams, r.log))

\* a variant of handleStreamStart that starts an as7341 stream when the
\* command names no type
handleStreamStartDefaultType(params, s, streams, hw, t) ==
    LET type == IF containsKey(params, "type") THEN params.type ELSE "as7341"
        intervalMs == UIntParam(params, "interval_ms", UINT32_MAX,
                                DEFAULT_STREAM_INTERVAL_MS)
    IN  Bind(StartStream(streams, type, intervalMs), LAMBDA r :
            Returned(IF r.ok
                     THEN [type |-> type, interval_ms |-> intervalMs, active |-> TRUE]
                     ELSE [error |-> "Failed to start stream", type |-> type,
                           interval_ms |-> intervalMs, active |-> FALSE],
                     s, r.streams, r.log))

handleStreamStart(params, s, streams, hw, t) ==
    IF ~containsKey(params, "type")
    THEN Returned([error |-> "Missing stream type"], s, streams, <<>>)
    ELSE LET intervalMs == UIntParam(params, "interval_ms", UINT32_MAX,
                                     DEFAULT_STREAM_INTERVAL_MS)
         IN  Bind(StartStream(streams, params.type, intervalMs), LAMBDA r :
                 Returned(IF r.ok
                          THEN [type |-> params.type, interval_ms |-> intervalMs,
                                active |-> TRUE]
                          ELSE [error |-> "Failed to start stream", type |-> params.type,
                                interval_ms |-> intervalMs, active |-> FALSE],
                          s, r.streams, r.log))

\* a variant of handleStreamStop that answers and leaves the stream running
handleStreamStopOnlyAnswers(params, s, streams, hw, t) ==
    IF ~containsKey(params, "type")
    THEN Returned([error |-> "Missing stream type"], s, streams, <<>>)
    ELSE Returned([type |-> params.type,
                   was_active |-> IsStreamActive(streams, params.type)],
                  s, streams, <<>>)

handleStreamStop(params, s, streams, hw, t) ==
    IF ~containsKey(params, "type")
    THEN Returned([error |-> "Missing stream type"], s, streams, <<>>)
    ELSE LET wasActive == IsStreamActive(streams, params.type)
         IN  Bind(StopStream(streams, params.type), LAMBDA r :
                 Returned(IF ~r.ok /\ wasActive
                          THEN [error |-> "Failed to stop stream", type |-> params.type,
                                was_active |-> wasActive]
                          ELSE [type |-> params.type, was_active |-> wasActive],
                          s, r.streams, r.log))

\* a variant of handleGetStreams whose count is the capacity of the scheduler
handleGetStreamsCapacity(params, s, streams, hw, t) ==
    Bind(GetActiveStreams(streams, 1), LAMBDA list :
        Returned([streams |-> list, count |-> MAX_DATA_STREAMS], s, streams, <<>>))

handleGetStreams(params, s, streams, hw, t) ==
    Bind(GetActiveStreams(streams, 1), LAMBDA list :
        Returned([streams |-> list, count |-> Len(list)], s, streams, <<>>))

\* the handler ends in ESP.restart(): it never returns to processCommand
handleResetDevice(params, s, streams, hw, t) ==
    Bind(StopAllStreams(streams, 1), LAMBDA stopped :
    Bind(SetLed(s, hw, FALSE, DEFAULT_LED_CURRENT), LAMBDA led :
    Bind(SetExternalLed(led.s, FALSE), LAMBDA ext :
        [data |-> [reset |-> TRUE, message |-> "Device will reset in 1 second"],
         s |-> ext.s, streams |-> stopped.streams,
         log |-> stopped.log \o led.log \o ext.log, restart |-> TRUE])))

handleDiagnostics(params, s, streams, hw, t) ==
    Bind(IsConnected(s, hw), LAMBDA c :
        Returned([status |-> "running", timestamp |-> t, system |-> "pass",
                  sensor |-> [connected |-> c.ok,
                              status |-> IF c.ok THEN "pass" ELSE "fail"],
                  communication |-> "pass", result |-> "pass"],
                 c.s, streams, c.log))

\* registerCommands: the registry protocol.commandHandlers after start-up
Registry ==
    ("ping" :> "handlePing") @@ ("get_info" :> "handleGetInfo")
    @@ ("as7341_init" :> "handleAs7341Init") @@ ("as7341_config" :> "handleAs7341Config")
    @@ ("as7341_read" :> "handleAs7341Read") @@ ("as7341_led" :> "handleAs7341Led")
    @@ ("stream_start" :> "handleStreamStart") @@ ("stream_stop" :> "handleStreamStop")
    @@ ("get_streams" :> "handleGetStreams") @@ ("reset" :> "handleResetDevice")
    @@ ("diagnostics" :> "handleDiagnostics")

\* the call of a registered std::function
CallHandler(h, params, s, streams, hw, t) ==
    CASE h = "handlePing" -> handlePing(params, s, streams, hw, t)
      [] h = "handleGetInfo" -> handleGetInfo(params, s, streams, hw, t)
      [] h = "handleAs7341Init" -> handleAs7341Init(params, s, streams, hw, t)
      [] h = "handleAs7341Config" -> handleAs7341Config(params, s, streams, hw, t)
      [] h = "handleAs7341Read" -> handleAs7341Read(params, s, streams, hw, t)
      [] h = "handleAs7341Led" -> handleAs7341Led(params, s, streams, hw, t)
      [] h = "handleStreamStart" -> handleStreamStart(params, s, streams, hw, t)
      [] h = "handleStreamStop" -> handleStreamStop(params, s, streams, hw, t)
      [] h = "handleGetStreams" -> handleGetStreams(params, s, streams, hw, t)
      [] h = "handleResetDevice" -> handleResetDevice(params, s, streams, hw, t)
      [] h = "handleDiagnostics" -> handleDiagnostics(params, s, streams, hw, t)

----------------------------------------------------------------------------
(* Protocol: the lines written to the transport and the dispatch           *)

\* a debug line (ENABLE_DEBUG_MESSAGES is 1 and LOG_LEVEL is 5)
Log(text) == [kind |-> "log", text |-> text]

RECURSIVE Logs(_)
Logs(texts) ==
    IF texts = <<>> THEN <<>> ELSE <<Log(Head(texts))>> \o Logs(Tail(texts))

\* Protocol::sendJsonDocument: the envelope's line, then its debug echo
sendJsonDocument(doc) == <<doc, Log("Sent JSON")>>

\* Protocol::sendResponse
sendResponse(type, commandId, data, status) ==
    sendJsonDocument([kind |-> "resp", resp |-> type, id |-> commandId,
                      status |-> status, data |-> data])

\* Protocol::sendErrorMessage
sendErrorMessage(type, commandId, message, status) ==
    sendResponse(type, commandId, message, status)

\* Protocol::sendEvent
sendEvent(type, data, t) ==
    sendJsonDocument([kind |-> "event", type |-> type, timestamp |-> t, data |-> data])

\* Protocol::sendData
sendData(type, data, t) ==
    sendJsonDocument([kind |-> "data", type |-> type, timestamp |-> t, data |-> data])

\* a variant of operator[] that puts an empty function in the place of the entry
SubscriptFresh(handlers, key) == (key :> "none") @@ handlers

\* commandHandlers[key] of std::map: the map after the access, an empty
\* function being inserted under a key that had no entry
Subscript(handlers, key) ==
    IF key \in DOMAIN handlers THEN handlers ELSE handlers @@ (key :> "none")

\* Protocol::commandExists
commandExists(handlers, command) == command \in DOMAIN handlers

\* an entry of calls: the handler invoked and how the invocation ended
Call(handler, outcome) == <<[handler |-> handler, outcome |-> outcome]>>

\* Protocol::processCommand for the decoded object cmd.  fault tells whether
\* the handler raises ("exception": a std::exception, "other": anything else)
\* instead of running to its end.  Yields [lines, s, streams, called,
\* restart, handlers].
processCommand(handlers, cmd, s, streams, hw, t, fault) ==
    LET cmdName == cmd.cmd
        cmdId == AsInt(cmd, "id")
        params == IF containsKey(cmd, "params") THEN cmd.params ELSE <<>>
        received == <<Log("Received command")>>
    IN  IF ~commandExists(handlers, cmdName)
        THEN [lines |-> received \o <<Log("Unknown command")>>
                        \o sendErrorMessage("error", cmdId,
                                            <<"Unknown command: ", cmdName>>,
                                            INVALID_COMMAND),
              s |-> s, streams |-> streams, called |-> <<>>, restart |-> FALSE,
              handlers |-> handlers]
        ELSE IF fault = "exception"
        THEN [lines |-> received \o <<Log("Command execution error")>>
                        \o sendErrorMessage("error", cmdId,
                                            <<"Execution error: ", "what">>,
                                            EXECUTION_ERROR),
              s |-> s, streams |-> streams,
              called |-> Call(handlers[cmdName], "raised"), restart |-> FALSE,
              handlers |-> Subscript(handlers, cmdName)]
        ELSE IF fault = "other"
        THEN [lines |-> received \o <<Log("Unknown command execution error")>>
                        \o sendErrorMessage("error", cmdId,
                                            <<"Unknown execution error">>,
                                            EXECUTION_ERROR),
              s |-> s, streams |-> streams,
              called |-> Call(handlers[cmdName], "raised"), restart |-> FALSE,
              handlers |-> Subscript(handlers, cmdName)]
        ELSE Bind(CallHandler(handlers[cmdName], params, s, streams, hw, t),
                  LAMBDA h :
                 [lines |-> received \o Logs(h.log)
                            \o (IF h.restart THEN <<>>
                                ELSE sendResponse("data", cmdId, h.data, SUCCESS)),
                  s |-> h.s, streams |-> h.streams,
                  called |-> Call(handlers[cmdName],
                                  IF h.restart THEN "restarted" ELSE "returned"),
                  restart |-> h.restart,
                  handlers |-> Subscript(handlers, cmdName)])

\* the body of the second loop of Protocol::update for the record cmdStr
processRecord(handlers, cmdStr, s, streams, hw, t, fault) ==
    Bind(deserializeJson(cmdStr), LAMBDA doc :
        IF doc.error # "Ok"
        THEN [lines |-> <<Log("JSON parse error")>>, s |-> s, streams |-> streams,
              called |-> <<>>, restart |-> FALSE, handlers |-> handlers]
        ELSE IF doc.isObject /\ containsKey(doc.obj, "cmd")
        THEN processCommand(handlers, doc.obj, s, streams, hw, t, fault)
        ELSE [lines |-> <<>>, s |-> s, streams |-> streams,
              called |-> <<>>, restart |-> FALSE, handlers |-> handlers])

----------------------------------------------------------------------------
(* StreamingManager::update *)

\* Serial.print(output) for the envelope doc: what reaches the transport when
\* the port takes all of the bytes, a part of them or none
SerialPrint(doc, written) ==
    IF written = "all" THEN <<doc>>
    ELSE IF written = "part" THEN <<[kind |-> "part", of |-> doc]>>
    ELSE <<>>

\* Protocol::sendData with what it returns: bytesWritten == output.length().
\* The debug echo is printed whatever the port took.  Yields [ok, lines].
sendDataWritten(type, data, t, written) ==
    [ok |-> written = "all",
     lines |-> SerialPrint([kind |-> "data", type |-> type, timestamp |-> t,
                            data |-> data], written)
               \o <<Log("Sent JSON")>>]

\* StreamingManager::updateAs7341Stream; yields [ok, s, lines]
updateAs7341Stream(s, hw, written, t) ==
    Bind(IsConnected(s, hw), LAMBDA c :
        IF ~c.ok
        THEN [ok |-> FALSE, s |-> c.s,
              lines |-> Logs(c.log) \o <<Log("AS7341 not connected")>>]
        ELSE Bind(ReadSpectralData(c.s, hw), LAMBDA r :
            IF ~r.ok
            THEN [ok |-> FALSE, s |-> r.s,
                  lines |-> Logs(c.log \o r.log)
                            \o <<Log("Failed to read AS7341 data")>>]
            ELSE Bind(sendDataWritten("as7341", Readings, t, written), LAMBDA sent :
                 [ok |-> sent.ok, s |-> r.s,
                  lines |-> Logs(c.log \o r.log) \o sent.lines
                            \o (IF sent.ok THEN <<>>
                                ELSE <<Log("Failed to send AS7341 data")>>)])))

\* StreamingManager::updateStream
updateStream(type, s, hw, written, t) ==
    IF type = "as7341" THEN updateAs7341Stream(s, hw, written, t)
    ELSE [ok |-> FALSE, s |-> s, lines |-> <<Log("Unknown stream type")>>]

\* an entry of calls: the stream whose producer was invoked and its result
Produced(type, ok) == <<[producer |-> type, outcome |-> ok]>>

\* the loop's body for the streams from key i on; yields [streams, s, lines,
\* invoked]
RECURSIVE UpdateStreams(_, _, _, _, _, _)
UpdateStreams(streams, s, hw, written, t, i) ==
    IF i > Len(StreamKeys)
    THEN [streams |-> streams, s |-> s, lines |-> <<>>, invoked |-> <<>>]
    ELSE IF ~HasStream(streams, StreamKeys[i])
    THEN UpdateStreams(streams, s, hw, written, t, i + 1)
    ELSE Bind(StreamOf(streams, StreamKeys[i]), LAMBDA d :
         IF ~(d.active /\ UIntDiff(t, d.lastUpdateMs) >= d.intervalMs)
         THEN UpdateStreams(streams, s, hw, written, t, i + 1)
         ELSE Bind(updateStream(d.type, s, hw, written, t), LAMBDA fire :
              Bind(UpdateStreams(IF fire.ok
                                 THEN (streams \ {d})
                                      \cup {[d EXCEPT !.lastUpdateMs = t]}
                                 ELSE streams,
                                 fire.s, hw, written, t, i + 1),
                   LAMBDA rest :
                       [rest EXCEPT !.lines = fire.lines \o rest.lines,
                                    !.invoked = Produced(d.type, fire.ok)
                                                \o rest.invoked])))

----------------------------------------------------------------------------
(* Start-up and the main loop *)

\* setup(): the driver after as7341.begin() and isConnected(), and the lines
\* written on the way, the device_ready event last
Setup(hw) ==
    Bind(Begin(DriverAtStart, hw), LAMBDA b : Bind(IsConnected(b.s, hw), LAMBDA c :
        [s |-> c.s,
         lines |-> <<Log("Firmware version"), Log("Protocol initialized"),
                     Log("Command handlers registered")>>
                   \o Logs(b.log)
                   \o (IF b.ok THEN <<>> ELSE <<Log("Failed to initialize AS7341")>>)
                   \o <<Log("Streaming manager initialized")>>
                   \o Logs(c.log)
                   \o sendEvent("device_ready",
                                [uptime |-> 0, sensor_connected |-> c.ok], 0)
                   \o <<Log("Device ready")>>]))

Init ==
    \E hw \in BOOLEAN : \E boot \in {Setup(hw)} :
        /\ rx = <<>>
        /\ commandBuffer = ZeroBuffer
        /\ bufferPos = 0
        /\ commandQueue = <<>>
        /\ commandHandlers = Registry
        /\ pc = "loop"
        /\ activeStreams = {}
        /\ sensor = boot.s
        /\ now = 0
        /\ tx = boot.lines
        /\ calls = <<>>
        /\ consumed = <<>>
        /\ framed = <<>>
        /\ fragmented = FALSE
        /\ arrived = 0
        /\ boots = 0
        /\ iteration = <<>>
        /\ lastActivityTime = 0

\* the lines the host sends under Spec
Lines ==
    {<<o, "}", LF>> : o \in DOMAIN Opening}
    \cup {<<"{ping7", LF>>, <<"x", LF>>, <<"7", LF>>, <<"{nope1", "}", "x", LF>>}

\* the bytes the host sends one at a time under SpecFramer
FramerBytes == {"{ping7", "}", NUL, CR, LF}

\* the host sends a line; the UART stores it behind what is waiting
ArriveLine ==
    /\ arrived < MaxArrive
    /\ \E l \in Lines : rx' = rx \o l
    /\ arrived' = arrived + 1
    /\ UNCHANGED <<commandBuffer, bufferPos, commandQueue, commandHandlers, pc,
                   activeStreams, sensor, now, tx, calls, consumed, framed, fragmented,
                   boots, iteration, lastActivityTime>>

\* the stream commands the host sends under SpecStreams
StreamLines ==
    {"{start", "{startMin", "{startMax", "{startNeg", "{startHuge", "{startOther",
     "{startThird", "{startZeta", "{stop", "{stopOther", "{streams", "{reset"}

\* the host sends a stream command while nothing waits in the UART; it is let
\* in when loop() is entered, where it is read from
ArriveStream ==
    /\ arrived < MaxStreamLines
    /\ pc = "loop"
    /\ rx = <<>>
    /\ \E o \in StreamLines : rx' = <<o, "}", LF>>
    /\ arrived' = arrived + 1
    /\ UNCHANGED <<commandBuffer, bufferPos, commandQueue, commandHandlers, pc,
                   activeStreams, sensor, now, tx, calls, consumed, framed, fragmented,
                   boots, iteration, lastActivityTime>>

\* the host sends a stream command twice, one line behind the other, while
\* nothing waits in the UART; one run of the read loop reads both lines
ArriveBurst ==
    /\ arrived < MaxBursts
    /\ pc = "loop"
    /\ rx = <<>>
    /\ \E o \in StreamLines : rx' = <<o, "}", LF, o, "}", LF>>
    /\ arrived' = arrived + 1
    /\ UNCHANGED <<commandBuffer, bufferPos, commandQueue, commandHandlers, pc,
                   activeStreams, sensor, now, tx, calls, consumed, framed, fragmented,
                   boots, iteration, lastActivityTime>>

\* the commands the host sends under SpecCommands
CommandLines ==
    {"{ping7", "{nope1", "{reset", "{led", "{config", "{configOk", "{configGain",
     "{configTime", "{configLed", "{startMin", "{startNoType", "{stopNoType"}

\* the host sends one of these commands while nothing waits in the UART
ArriveCommand ==
    /\ arrived < MaxCommandLines
    /\ pc = "loop"
    /\ rx = <<>>
    /\ \E o \in CommandLines : rx' = <<o, "}", LF>>
    /\ arrived' = arrived + 1
    /\ UNCHANGED <<commandBuffer, bufferPos, commandQueue, commandHandlers, pc,
                   activeStreams, sensor, now, tx, calls, consumed, framed, fragmented,
                   boots, iteration, lastActivityTime>>

\* the commands the host sends in batches under SpecBatches
BatchOpenings == {"{ping7", "{pingNoId", "{resetNoId"}

\* n times the bytes of line, one after the other
RECURSIVE Repeat(_, _)
Repeat(line, n) == IF n = 0 THEN <<>> ELSE line \o Repeat(line, n - 1)

\* the host sends up to MaxBatch lines in one go while nothing waits in the
\* UART; one run of the read loop finds them all
ArriveBatch ==
    /\ arrived < MaxBatches
    /\ pc = "loop"
    /\ rx = <<>>
    /\ \E o \in BatchOpenings, n \in 1 .. MaxBatch : rx' = Repeat(<<o, "}", LF>>, n)
    /\ arrived' = arrived + 1
    /\ UNCHANGED <<commandBuffer, bufferPos, commandQueue, commandHandlers, pc,
                   activeStreams, sensor, now, tx, calls, consumed, framed, fragmented,
                   boots, iteration, lastActivityTime>>

\* the stream commands the host sends under SpecLive; the streams they start
\* have the minimum interval, which the instants of the clock let elapse
LiveLines == {"{startMin", "{startOther", "{stop", "{streams", "{reset"}

\* the host sends one of these commands while nothing waits in the UART
ArriveLive ==
    /\ arrived < MaxLiveLines
    /\ pc = "loop"
    /\ rx = <<>>
    /\ \E o \in LiveLines : rx' = <<o, "}", LF>>
    /\ arrived' = arrived + 1
    /\ UNCHANGED <<commandBuffer, bufferPos, commandQueue, commandHandlers, pc,
                   activeStreams, sensor, now, tx, calls, consumed, framed, fragmented,
                   boots, iteration, lastActivityTime>>

\* the host sends one byte.  A byte that comes while loop() is past the read
\* loop waits in the UART until the next call of Protocol::update; it is let
\* in when loop() is entered, where it is read from.
ArriveByte ==
    /\ arrived < MaxBytes
    /\ pc = "loop"
    /\ \E b \in FramerBytes : rx' = Append(rx, b)
    /\ arrived' = arrived + 1
    /\ UNCHANGED <<commandBuffer, bufferPos, commandQueue, commandHandlers, pc,
                   activeStreams, sensor, now, tx, calls, consumed, framed, fragmented,
                   boots, iteration, lastActivityTime>>

\* a variant of loop() that enters Protocol::update without servicing the
\* watchdog
LoopEntryUnserviced == <<"protocol.update">>

\* the calls loop() begins with: esp_task_wdt_reset(), then protocol.update()
LoopEntry == <<"esp_task_wdt_reset", "protocol.update">>

\* a variant of Drain whose buffer position is local to the call
DrainLocalBuffer ==
    /\ pc = "loop"
    /\ \E f \in {ReadAll([buf |-> commandBuffer, pos |-> 0,
                             queue |-> commandQueue], rx)} :
           /\ commandBuffer' = f.buf
           /\ bufferPos' = f.pos
           /\ commandQueue' = f.queue
           /\ framed' = (IF bufferPos = 0 THEN <<>> ELSE framed)
                        \o SubSeq(f.queue, Len(commandQueue) + 1, Len(f.queue))
    /\ consumed' = (IF bufferPos = 0 THEN <<>> ELSE consumed) \o rx
    /\ fragmented' = (bufferPos > 0 /\ \E i \in DOMAIN rx : rx[i] = LF)
    /\ rx' = <<>>
    /\ tx' = <<>>
    /\ calls' = <<>>
    /\ pc' = "process"
    /\ iteration' = LoopEntry
    /\ UNCHANGED <<commandHandlers, activeStreams, sensor, now, arrived, boots,
                   lastActivityTime>>

\* loop() up to the end of the first loop of Protocol::update: the watchdog
\* is reset and every waiting byte is read
Drain ==
    /\ pc = "loop"
    /\ \E f \in {ReadAll([buf |-> commandBuffer, pos |-> bufferPos,
                             queue |-> commandQueue], rx)} :
           /\ commandBuffer' = f.buf
           /\ bufferPos' = f.pos
           /\ commandQueue' = f.queue
           /\ framed' = (IF bufferPos = 0 THEN <<>> ELSE framed)
                        \o SubSeq(f.queue, Len(commandQueue) + 1, Len(f.queue))
    /\ consumed' = (IF bufferPos = 0 THEN <<>> ELSE consumed) \o rx
    /\ fragmented' = (bufferPos > 0 /\ \E i \in DOMAIN rx : rx[i] = LF)
    /\ rx' = <<>>
    /\ tx' = <<>>
    /\ calls' = <<>>
    /\ pc' = "process"
    /\ iteration' = LoopEntry
    /\ UNCHANGED <<commandHandlers, activeStreams, sensor, now, arrived, boots,
                   lastActivityTime>>

\* one pass of the second loop of Protocol::update: the front record is
\* taken off the queue, decoded and dispatched
Process ==
    /\ pc = "process"
    /\ commandQueue # <<>>
    /\ \E hw \in BOOLEAN, fault \in {"none", "exception", "other"} :
        \E p \in {processRecord(commandHandlers, Head(commandQueue), sensor,
                                 activeStreams, hw, now, fault)} :
        \E boot \in {Setup(hw)} :
            /\ calls' = calls \o p.called
            /\ IF p.restart
               THEN \* ESP.restart(): memory and the UART are lost, setup() runs
                    /\ rx' = <<>>
                    /\ commandBuffer' = ZeroBuffer
                    /\ bufferPos' = 0
                    /\ commandQueue' = <<>>
                    /\ pc' = "loop"
                    /\ activeStreams' = {}
                    /\ sensor' = boot.s
                    /\ now' = 0
                    /\ tx' = tx \o p.lines \o boot.lines
                    /\ consumed' = <<>>
                    /\ framed' = <<>>
                    /\ fragmented' = FALSE
                    /\ boots' = boots + 1
                    /\ iteration' = <<>>
                    /\ lastActivityTime' = 0
                    /\ commandHandlers' = Registry
               ELSE /\ commandQueue' = Tail(commandQueue)
                    /\ activeStreams' = p.streams
                    /\ sensor' = p.s
                    /\ tx' = tx \o p.lines
                    /\ commandHandlers' = p.handlers
                    /\ UNCHANGED <<rx, commandBuffer, bufferPos, pc, now,
                                   consumed, framed, fragmented, boots, iteration,
                                   lastActivityTime>>
    /\ UNCHANGED arrived

\* a variant of the tick that stamps every stream held, fired or not
StreamUpdateStampsAll ==
    /\ pc = "process"
    /\ commandQueue = <<>>
    /\ \E hw \in BOOLEAN :
        \E u \in {UpdateStreams(activeStreams, sensor, hw, "all", now, 1)} :
            /\ activeStreams' = {[d EXCEPT !.lastUpdateMs = now] : d \in u.streams}
            /\ sensor' = u.s
            /\ tx' = tx \o u.lines
            /\ calls' = calls \o u.invoked
    /\ pc' = "sleep"
    /\ iteration' = Append(iteration, "streaming.update")
    /\ UNCHANGED <<rx, commandBuffer, bufferPos, commandQueue, commandHandlers,
                   now, consumed, framed, fragmented, arrived, boots,
                   lastActivityTime>>

\* a variant of the tick that does not wait for the dispatch loop to end
StreamUpdateEarly ==
    /\ pc = "process"
    /\ \E hw \in BOOLEAN :
        \E u \in {UpdateStreams(activeStreams, sensor, hw, "all", now, 1)} :
            /\ activeStreams' = u.streams
            /\ sensor' = u.s
            /\ tx' = tx \o u.lines
            /\ calls' = calls \o u.invoked
    /\ pc' = "sleep"
    /\ iteration' = Append(iteration, "streaming.update")
    /\ UNCHANGED <<rx, commandBuffer, bufferPos, commandQueue, commandHandlers,
                   now, consumed, framed, fragmented, arrived, boots,
                   lastActivityTime>>

\* Protocol::update returns with the queue empty; streaming.update() runs
StreamUpdate ==
    /\ pc = "process"
    /\ commandQueue = <<>>
    /\ \E hw \in BOOLEAN :
        \E u \in {UpdateStreams(activeStreams, sensor, hw, "all", now, 1)} :
            /\ activeStreams' = u.streams
            /\ sensor' = u.s
            /\ tx' = tx \o u.lines
            /\ calls' = calls \o u.invoked
    /\ pc' = "sleep"
    /\ iteration' = Append(iteration, "streaming.update")
    /\ UNCHANGED <<rx, commandBuffer, bufferPos, commandQueue, commandHandlers,
                   now, consumed, framed, fragmented, arrived, boots,
                   lastActivityTime>>

\* streaming.update() while the serial port takes only a part of the bytes of
\* a Data envelope, or none of them
StreamUpdateFault ==
    /\ pc = "process"
    /\ commandQueue = <<>>
    /\ \E hw \in BOOLEAN, written \in {"part", "none"} :
        \E u \in {UpdateStreams(activeStreams, sensor, hw, written, now, 1)} :
            /\ activeStreams' = u.streams
            /\ sensor' = u.s
            /\ tx' = tx \o u.lines
            /\ calls' = calls \o u.invoked
    /\ pc' = "sleep"
    /\ iteration' = Append(iteration, "streaming.update")
    /\ UNCHANGED <<rx, commandBuffer, bufferPos, commandQueue, commandHandlers,
                   now, consumed, framed, fragmented, arrived, boots,
                   lastActivityTime>>

\* powerManagement.checkSleepConditions() does nothing (ENABLE_POWER_SAVING
\* is 0); after delay(1) loop() is entered again, at the next instant
Idle ==
    /\ pc = "sleep"
    /\ now' = NextInstant(now)
    /\ pc' = "loop"
    /\ iteration' = <<>>
    /\ UNCHANGED <<rx, commandBuffer, bufferPos, commandQueue, commandHandlers,
                   activeStreams, sensor, tx, calls, consumed, framed, fragmented,
                   arrived, boots, lastActivityTime>>

\* PowerManagement::enterLightSleep(5000) as written for ENABLE_POWER_SAVING 1:
\* the LEDs are turned off, the chip sleeps until the timer wakes it at the
\* instant t, and the activity timestamp is set.  Yields [s, lines, last].
EnterLightSleep(s, hw, t) ==
    Bind(SetLed(s, hw, FALSE, DEFAULT_LED_CURRENT), LAMBDA l :
    Bind(SetExternalLed(l.s, FALSE), LAMBDA e :
        [s |-> e.s,
         lines |-> <<Log("Entering light sleep mode")>> \o Logs(l.log \o e.log),
         last |-> t]))

\* the end of loop() in a build with ENABLE_POWER_SAVING 1:
\* checkSleepConditions() enters light sleep when the last activity is more
\* than SLEEP_AFTER_IDLE_MS back; after delay(1) loop() is entered again
IdlePowerSaving ==
    /\ pc = "sleep"
    /\ now' = NextInstant(now)
    /\ pc' = "loop"
    /\ iteration' = <<>>
    /\ IF UIntDiff(now, lastActivityTime) > SLEEP_AFTER_IDLE_MS
       THEN \E hw \in BOOLEAN :
            \E z \in {EnterLightSleep(sensor, hw, NextInstant(now))} :
                /\ sensor' = z.s
                /\ tx' = tx \o z.lines
                /\ lastActivityTime' = z.last
       ELSE UNCHANGED <<sensor, tx, lastActivityTime>>
    /\ UNCHANGED <<rx, commandBuffer, bufferPos, commandQueue, commandHandlers,
                   activeStreams, calls, consumed, framed, fragmented, arrived, boots>>

Next == ArriveLine \/ Drain \/ Process \/ StreamUpdate \/ Idle

Spec == Init /\ [][Next]_vars

NextFramer == ArriveByte \/ Drain \/ Process \/ StreamUpdate \/ Idle

SpecFramer == Init /\ [][NextFramer]_vars

NextStreams == ArriveStream \/ Drain \/ Process \/ StreamUpdate \/ Idle

SpecStreams == Init /\ [][NextStreams]_vars

NextBursts == ArriveBurst \/ Drain \/ Process \/ StreamUpdate \/ Idle

SpecBursts == Init /\ [][NextBursts]_vars

NextCommands == ArriveCommand \/ Drain \/ Process \/ StreamUpdate \/ Idle

SpecCommands == Init /\ [][NextCommands]_vars

NextPower == ArriveCommand \/ Drain \/ Process \/ StreamUpdate \/ IdlePowerSaving

\* the main loop of a build with ENABLE_POWER_SAVING 1
SpecPower == Init /\ [][NextPower]_vars

NextBatches == ArriveBatch \/ Drain \/ Process \/ StreamUpdate \/ Idle

SpecBatches == Init /\ [][NextBatches]_vars

NextFaults ==
    ArriveLive \/ Drain \/ Process \/ StreamUpdate \/ StreamUpdateFault \/ Idle

\* the main loop with a serial port that may take fewer bytes than it is given
SpecFaults == Init /\ [][NextFaults]_vars

NextLive == ArriveLive \/ Drain \/ Process \/ StreamUpdate \/ Idle

\* a tick in which the producer of as7341 is invoked and succeeds
Produce ==
    /\ StreamUpdate
    /\ \E j \in Len(calls) + 1 .. Len(calls') :
        calls'[j].producer = "as7341" /\ calls'[j].outcome

\* loop() is called again and again, so every part of it that can run does
\* run, and the clock moves on; the sensor answers: the producer of as7341
\* succeeds again and again if it is invoked again and again
SpecLive ==
    /\ Init /\ [][NextLive]_vars
    /\ WF_vars(Drain) /\ WF_vars(Process) /\ WF_vars(StreamUpdate) /\ WF_vars(Idle)
    /\ SF_vars(Produce)

----------------------------------------------------------------------------
(* Vocabulary of the properties *)

Range(q) == {q[i] : i \in DOMAIN q}

IsResponse(l) == l.kind = "resp"

IsEnvelope(l) == l.kind \in {"resp", "event", "data"}

Responses(lines) == SelectSeq(lines, IsResponse)

\* a step of Process: the front record leaves the queue
Dispatching == pc = "process" /\ commandQueue # <<>> /\ commandQueue' # commandQueue

\* a step of Drain: one run of the read loop of Protocol::update
Reading == pc = "loop" /\ pc' = "process"

\* the lines a step writes
Written == SubSeq(tx', Len(tx) + 1, Len(tx'))

\* the Responses a step writes
Replies == Responses(Written)

\* the record a Process step takes, and what it decodes to
Record == Head(commandQueue)

Decoded == deserializeJson(Record)

IsCommand == Decoded.error = "Ok" /\ Decoded.isObject /\ containsKey(Decoded.obj, "cmd")

Command == Decoded.obj

HasId == containsKey(Command, "id")

Params == IF containsKey(Command, "params") THEN Command.params ELSE <<>>

\* how the handler invoked by a step ended; "none" when the step invoked none
Outcome == IF Len(calls') > Len(calls) THEN calls'[Len(calls')].outcome ELSE "none"

\* the text of a record as JSON defines it: one value and nothing after it
WellFormedJson(rec) ==
    \/ rec = <<"7">>
    \/ Len(rec) = 2 /\ rec[1] \in DOMAIN Members /\ rec[2] = "}"

\* the framer before the first byte
FramerAtStart == [buf |-> ZeroBuffer, pos |-> 0, queue |-> <<>>]

\* the first n bytes of a line
Cut(line, n) == IF Len(line) > n THEN SubSeq(line, 1, n) ELSE line

\* the records of bytes as the framing rule states them: the finished lines
\* without CR, the empty ones left out, each cut to the capacity; cur is the
\* line begun so far
RECURSIVE RecordsOf(_, _)
RecordsOf(cur, bytes) ==
    IF bytes = <<>> THEN <<>>
    ELSE IF Head(bytes) = LF
         THEN (IF cur = <<>> THEN <<>> ELSE <<Cut(cur, JSON_BUFFER_SIZE - 1)>>)
              \o RecordsOf(<<>>, Tail(bytes))
    ELSE IF Head(bytes) = CR THEN RecordsOf(cur, Tail(bytes))
    ELSE RecordsOf(Append(cur, Head(bytes)), Tail(bytes))

\* the number of LF in bytes that end a line holding a byte other than CR;
\* begun tells whether the line under way holds one already
RECURSIVE Terminated(_, _)
Terminated(begun, bytes) ==
    IF bytes = <<>> THEN 0
    ELSE IF Head(bytes) = LF
         THEN (IF begun THEN 1 ELSE 0) + Terminated(FALSE, Tail(bytes))
    ELSE IF Head(bytes) = CR THEN Terminated(begun, Tail(bytes))
    ELSE Terminated(TRUE, Tail(bytes))

\* the length of the line under way behind bytes, n bytes of it being there
\* before: LF starts a line, CR adds nothing, the capacity bounds the length
RECURSIVE Pending(_, _)
Pending(n, bytes) ==
    IF bytes = <<>> THEN n
    ELSE IF Head(bytes) = LF THEN Pending(0, Tail(bytes))
    ELSE IF Head(bytes) = CR THEN Pending(n, Tail(bytes))
    ELSE Pending(IF n < JSON_BUFFER_SIZE - 1 THEN n + 1 ELSE n, Tail(bytes))

----------------------------------------------------------------------------
(* Dispatch: C1 .. C6, under Spec *)

\* C1: every record that decodes to an object with the member cmd gets exactly
\* one Response, and that Response carries the command's id.
C1_ExactlyOneResponse ==
    [][Dispatching /\ IsCommand
       => /\ Len(Replies) = 1
          /\ HasId => Replies[1].id = Command.id]_vars

\* the reset command has restarted the device and no Response was written
C1_ResetUnanswered ==
    /\ boots = 1
    /\ calls = Call("handleResetDevice", "restarted")
    /\ Responses(tx) = <<>>

\* C2: whatever integer the member id of a command holds, negative or outside
\* the range of int, every Response written for the command holds that integer.
C2_IdEchoed ==
    [][Dispatching /\ IsCommand /\ HasId
       => \A i \in DOMAIN Replies : Replies[i].id = Command.id]_vars

\* a ping whose id is INT_MAX + 1 was answered with the id 0
C2_IdOutOfRange ==
    /\ consumed = <<"{pingOver", "}", LF>>
    /\ \E i \in DOMAIN tx :
        IsResponse(tx[i]) /\ tx[i].resp = "data" /\ tx[i].id = 0

\* C3: when the command's name is registered and its handler returns, the
\* Response is a "data" Response with status SUCCESS whose data is the object
\* the handler filled and whose id is the command's; for ping the data is
\* {pong: true, time: millis()}.
C3_SuccessEnvelope ==
    [][Dispatching /\ IsCommand /\ Outcome = "returned"
       => /\ Len(Replies) = 1
          /\ Replies[1].resp = "data"
          /\ Replies[1].status = 0
          /\ \E hw \in BOOLEAN :
                Replies[1].data = CallHandler(commandHandlers[Command.cmd], Params,
                                              sensor, activeStreams, hw, now).data
          /\ Command.cmd = "ping" => Replies[1].data = [pong |-> TRUE, time |-> now]
          /\ HasId => Replies[1].id = Command.id]_vars

\* a ping whose id is below INT_MIN was answered with a pong under the id 0
C3_PongUnderOtherId ==
    /\ consumed = <<"{pingUnder", "}", LF>>
    /\ calls = Call("handlePing", "returned")
    /\ \E i \in DOMAIN tx :
        /\ IsResponse(tx[i])
        /\ tx[i].data = [pong |-> TRUE, time |-> now]
        /\ tx[i].status = SUCCESS
        /\ tx[i].id = 0

\* C4: a command whose name is not registered gets the "error" Response with
\* status 1, its id and the data "Unknown command: <name>"; no handler runs and
\* the stream set, the registry and the sensor state stay as they are.
C4_UnknownCommand ==
    [][Dispatching /\ IsCommand /\ ~commandExists(commandHandlers, Command.cmd)
       => /\ Replies = <<[kind |-> "resp", resp |-> "error", id |-> Command.id,
                          status |-> 1,
                          data |-> <<"Unknown command: ", Command.cmd>>]>>
          /\ calls' = calls
          /\ UNCHANGED <<activeStreams, commandHandlers, sensor>>]_vars

\* an unknown command whose id is INT_MAX + 1 was refused under the id 0
C4_UnknownUnderOtherId ==
    /\ consumed = <<"{nopeOver", "}", LF>>
    /\ calls = <<>>
    /\ Responses(tx) = <<[kind |-> "resp", resp |-> "error", id |-> 0,
                          status |-> INVALID_COMMAND,
                          data |-> <<"Unknown command: ", "nope">>]>>

\* C5: when a handler raises, exactly one Response is written, an "error"
\* Response with status 3 and the command's id; the loop goes on: the record
\* is off the queue, the records behind it are still there to be dispatched
\* and the device has not restarted.
C5_HandlerFault ==
    [][Dispatching /\ IsCommand /\ Outcome = "raised"
       => /\ Len(Replies) = 1
          /\ Replies[1].resp = "error"
          /\ Replies[1].status = 3
          /\ HasId => Replies[1].id = Command.id
          /\ commandQueue' = Tail(commandQueue)
          /\ pc' = "process"
          /\ boots' = boots]_vars

\* the handler of a ping whose id is INT_MAX + 1 raised; the error Response
\* holds the id 0
C5_FaultUnderOtherId ==
    /\ consumed = <<"{pingOver", "}", LF>>
    /\ calls = Call("handlePing", "raised")
    /\ \E i \in DOMAIN tx :
        /\ IsResponse(tx[i])
        /\ tx[i].resp = "error"
        /\ tx[i].status = EXECUTION_ERROR
        /\ tx[i].id = 0

\* C6: a record that is not well-formed JSON, or is well-formed without the
\* member cmd (a value that is no object included), writes no envelope and
\* invokes no handler; it is dropped and the records behind it stay queued
\* for the same run of the loop.
C6_MalformedDropped ==
    [][Dispatching /\ (~WellFormedJson(Record) \/ ~IsCommand)
       => /\ \A i \in DOMAIN Written : ~IsEnvelope(Written[i])
          /\ calls' = calls
          /\ commandQueue' = Tail(commandQueue)
          /\ pc' = "process"]_vars

\* a record with text behind the closing brace of its object was answered
C6_TrailingTextAnswered ==
    /\ consumed = <<"{nope1", "}", "x", LF>>
    /\ framed = <<(<<"{nope1", "}", "x">>)>>
    /\ commandQueue = <<>>
    /\ \E i \in DOMAIN tx : IsResponse(tx[i]) /\ tx[i].id = 1

----------------------------------------------------------------------------
(* The line framer: C7 .. C10, under SpecFramer *)

\* C7: the records pushed are the lines of the bytes read, without CR, the
\* empty lines left out, each line cut to the capacity of the buffer.
C7_RecordsAreLines == framed = RecordsOf(<<>>, consumed)

\* a line holding a NUL was pushed as the bytes before the NUL
C7_CutAtNul ==
    /\ consumed = <<"{ping7", NUL, "}", LF>>
    /\ framed = <<(<<"{ping7">>)>>

\* C8: of a line longer than the capacity the bytes beyond it are dropped
\* without a line being written, and at the LF the first capacity bytes are
\* pushed as a record.
C8_TruncatedEmitted ==
    [][(/\ Reading
        /\ bufferPos = 0
        /\ Len(rx) > JSON_BUFFER_SIZE
        /\ \A i \in DOMAIN rx : (rx[i] = LF) = (i = Len(rx))
        /\ CR \notin Range(rx))
       => /\ commandQueue' = <<SubSeq(rx, 1, JSON_BUFFER_SIZE - 1)>>
          /\ tx' = <<>>]_vars

\* an overlong line was pushed as less than its first capacity bytes
C8_OverlongCutShort ==
    /\ Len(consumed) > JSON_BUFFER_SIZE
    /\ \A i \in DOMAIN consumed : (consumed[i] = LF) = (i = Len(consumed))
    /\ CR \notin Range(consumed)
    /\ Len(framed) = 1
    /\ Len(framed[1]) < JSON_BUFFER_SIZE - 1

\* C9: CR ends no record and is in no record; LF ends the record under way
\* and resets the buffer; an LF that finds the buffer empty pushes no record.
C9_Terminators ==
    [][Reading
       => /\ Len(commandQueue') = Len(commandQueue) + Terminated(bufferPos > 0, rx)
          /\ \A i \in DOMAIN commandQueue' : CR \notin Range(commandQueue'[i])
          /\ rx # <<>> /\ rx[Len(rx)] = LF => bufferPos' = 0
          /\ bufferPos' = Pending(bufferPos, rx)]_vars

\* a line ended by CR LF and an empty line behind it gave one record
C9_CrLfThenEmpty ==
    /\ consumed = <<"{ping7", "}", CR, LF, LF>>
    /\ framed = <<(<<"{ping7", "}">>)>>
    /\ bufferPos = 0

\* C10: however the bytes are split over the calls of Protocol::update, after
\* each call the records pushed and the buffer are those of one call that
\* reads, from an empty buffer, all the bytes read since the buffer was empty;
\* a call that reads no LF pushes no record, so nothing is dispatched.
C10_SplitIndependent ==
    [][Reading
       => /\ \E once \in {ReadAll(FramerAtStart, consumed')} :
                /\ once.queue = framed'
                /\ once.pos = bufferPos'
                /\ once.buf = commandBuffer'
          /\ LF \notin Range(rx)
             => commandQueue' = <<>> /\ commandQueue' = commandQueue /\ tx' = <<>>]_vars

\* a ping whose bytes came in two calls was pushed as one record
C10_AssembledAcrossCalls ==
    /\ fragmented
    /\ consumed = <<"{ping7", "}", LF>>
    /\ framed = <<(<<"{ping7", "}">>)>>

----------------------------------------------------------------------------
(* Stream scheduler: C11 .. C20 *)

Types(streams) == {d.type : d \in streams}

\* the interval asked for, brought into [MIN_STREAM_INTERVAL_MS,
\* MAX_STREAM_INTERVAL_MS]
Clamp(v) ==
    IF v < MIN_STREAM_INTERVAL_MS THEN MIN_STREAM_INTERVAL_MS
    ELSE IF v > MAX_STREAM_INTERVAL_MS THEN MAX_STREAM_INTERVAL_MS ELSE v

\* a step of Process in which handleStreamStart calls startStream and returns
Starting ==
    /\ Dispatching /\ IsCommand
    /\ Command.cmd = "stream_start"
    /\ containsKey(Params, "type")
    /\ Outcome = "returned"

\* a step of Process in which handleStreamStop calls stopStream and returns
Stopping ==
    /\ Dispatching /\ IsCommand
    /\ Command.cmd = "stream_stop"
    /\ containsKey(Params, "type")
    /\ Outcome = "returned"

\* the type the command names
Requested == Params.type

\* the interval handleStreamStart hands to startStream
Passed == UIntParam(Params, "interval_ms", UINT32_MAX, DEFAULT_STREAM_INTERVAL_MS)

\* the Response of handleStreamStart; its member active is what startStream
\* returned
IsStartReply(l) == IsResponse(l) /\ l.resp = "data" /\ "active" \in DOMAIN l.data

\* the Response of handleStreamStop
IsStopReply(l) == IsResponse(l) /\ l.resp = "data" /\ "was_active" \in DOMAIN l.data

\* what startStream returned in a step of Starting
StartReturned == Replies[1].data.active

\* the streams other than the one of a type
Others(streams, type) == {d \in streams : d.type # type}

\* C11: the scheduler never holds more than MAX_DATA_STREAMS distinct stream
\* types, however often streams are started again.
C11_CapHolds == Cardinality(Types(activeStreams)) <= MAX_DATA_STREAMS

\* MAX_DATA_STREAMS streams are held and a further start has just been refused
C11_FullAndRefused ==
    /\ Cardinality(Types(activeStreams)) = MAX_DATA_STREAMS
    /\ \E i \in DOMAIN tx : IsStartReply(tx[i]) /\ ~tx[i].data.active

\* C12: with MAX_DATA_STREAMS streams held, startStream of a type that is not
\* held returns false, creates no entry and leaves every stream as it is.
C12_RefusedAtCap ==
    [][Starting /\ Cardinality(Types(activeStreams)) >= MAX_DATA_STREAMS
                /\ Requested \notin Types(activeStreams)
       => /\ ~StartReturned
          /\ activeStreams' = activeStreams]_vars

\* three streams are held and the start of a fourth type has been refused
C12_FourthRefused ==
    /\ pc = "process"
    /\ Types(activeStreams) = {"as7341", "other", "third"}
    /\ \E i \in DOMAIN tx :
        /\ IsStartReply(tx[i])
        /\ tx[i].data.type = "zeta"
        /\ ~tx[i].data.active

\* C13: startStream called twice in a row with the same type and interval
\* leaves exactly one stream of that type, with the clamped interval, and the
\* number of types is the same after the second call as after the first.
C13_StartIdempotent ==
    [][Starting /\ HasStream(activeStreams, Requested)
                /\ StreamOf(activeStreams, Requested)
                   = [type |-> Requested, intervalMs |-> Clamp(Passed),
                      lastUpdateMs |-> 0, active |-> TRUE]
       => /\ Cardinality({d \in activeStreams' : d.type = Requested}) = 1
          /\ StreamOf(activeStreams', Requested).intervalMs = Clamp(Passed)
          /\ Cardinality(Types(activeStreams')) = Cardinality(Types(activeStreams))]_vars

\* the same start has been handled twice in one run of the dispatch loop
C13_StartedTwice ==
    /\ pc = "process"
    /\ commandQueue = <<>>
    /\ Len(Responses(tx)) = 2
    /\ \A i \in 1 .. 2 :
        /\ IsStartReply(Responses(tx)[i])
        /\ Responses(tx)[i].data.type = "as7341"
        /\ Responses(tx)[i].data.interval_ms = DEFAULT_STREAM_INTERVAL_MS
        /\ Responses(tx)[i].data.active
    /\ activeStreams = {[type |-> "as7341", intervalMs |-> DEFAULT_STREAM_INTERVAL_MS,
                         lastUpdateMs |-> 0, active |-> TRUE]}

\* C14: startStream of a type that is held is accepted, also with
\* MAX_DATA_STREAMS streams held: it returns true, the stream has the new
\* clamped interval and is active, and no other stream changes.
C14_RestartAccepted ==
    [][Starting /\ HasStream(activeStreams, Requested)
       => /\ StartReturned
          /\ Cardinality({d \in activeStreams' : d.type = Requested}) = 1
          /\ StreamOf(activeStreams', Requested).intervalMs = Clamp(Passed)
          /\ StreamOf(activeStreams', Requested).active
          /\ Others(activeStreams', Requested) = Others(activeStreams, Requested)]_vars

\* three streams are held, the one started first among them has just been
\* started again with another interval
C14_RestartedAtCap ==
    /\ boots = 0
    /\ arrived = MAX_DATA_STREAMS + 1
    /\ Types(activeStreams) = {"as7341", "other", "third"}
    /\ StreamOf(activeStreams, "as7341").intervalMs = MAX_STREAM_INTERVAL_MS
    /\ \E i \in DOMAIN tx :
        /\ IsStartReply(tx[i])
        /\ tx[i].data.type = "as7341"
        /\ tx[i].data.active

\* C15: whatever integer a stream_start command gives as interval_ms, below
\* the minimum, above the maximum, negative or above the largest uint32_t, the
\* start is not refused for it and the stream holds that integer clamped into
\* [MIN_STREAM_INTERVAL_MS, MAX_STREAM_INTERVAL_MS].
C15_IntervalClamped ==
    [][Starting /\ containsKey(Params, "interval_ms")
                /\ \/ Cardinality(Types(activeStreams)) < MAX_DATA_STREAMS
                   \/ HasStream(activeStreams, Requested)
       => /\ StartReturned
          /\ HasStream(activeStreams', Requested)
          /\ StreamOf(activeStreams', Requested).intervalMs
             = Clamp(Params.interval_ms)]_vars

\* a start whose interval_ms is UINT32_MAX + 1 left the stream with the
\* minimum interval
C15_HugeStoredAsMin ==
    /\ consumed = <<"{startHuge", "}", LF>>
    /\ pc = "process"
    /\ commandQueue = <<>>
    /\ Members["{startHuge"].params.interval_ms > MAX_STREAM_INTERVAL_MS
    /\ \E i \in DOMAIN tx : IsStartReply(tx[i]) /\ tx[i].data.active
    /\ StreamOf(activeStreams, "as7341").intervalMs = MIN_STREAM_INTERVAL_MS

\* a step of StreamUpdate: one call of StreamingManager::update, a tick
Ticking == pc = "process" /\ pc' = "sleep"

\* the producer calls of a tick
Productions == SubSeq(calls', Len(calls) + 1, Len(calls'))

\* the types whose producer a tick invokes, and those whose producer fails
Invoked == {Productions[j].producer : j \in DOMAIN Productions}

Failed == {Productions[j].producer :
           j \in {k \in DOMAIN Productions : ~Productions[k].outcome}}

\* the milliseconds from one value of the clock to another, the clock
\* counting modulo 2^32
Elapsed(from, to) == IF to >= from THEN to - from ELSE to + (UINT32_MAX + 1) - from

\* a start of the type was accepted in the dispatch loop that ran before the
\* tick, and the stream is held
JustStarted(type) ==
    /\ HasStream(activeStreams, type)
    /\ \E i \in DOMAIN tx :
        /\ IsStartReply(tx[i])
        /\ tx[i].data.type = type
        /\ tx[i].data.active

IsProduction(c) == "producer" \in DOMAIN c

\* C16: after an accepted startStream the stream's producer is invoked on the
\* very next tick, whatever the clock shows, 0 and any value below the
\* stream's interval included.
C16_FirstTickProduces ==
    [][Ticking => \A type \in Types(activeStreams) :
                      JustStarted(type) => type \in Invoked]_vars

\* a stream started with the maximum interval while the clock showed
\* MIN_STREAM_INTERVAL_MS; the tick that followed invoked no producer
C16_StartedNotProduced ==
    /\ pc = "sleep"
    /\ now = MIN_STREAM_INTERVAL_MS
    /\ consumed = <<"{startMax", "}", LF>>
    /\ JustStarted("as7341")
    /\ StreamOf(activeStreams, "as7341").intervalMs = MAX_STREAM_INTERVAL_MS
    /\ \A j \in DOMAIN calls : ~IsProduction(calls[j])

\* C17: a tick invokes the producer of exactly the active streams for which
\* now - lastUpdateMs, taken modulo 2^32, is at least intervalMs, and sets
\* lastUpdateMs to now where the producer succeeds; so at least intervalMs
\* lies between two successful productions of a stream, also when the clock
\* wraps around in between.
C17_DueStreamsProduced ==
    [][Ticking
       => /\ Invoked = {d.type : d \in {e \in activeStreams :
                           e.active /\ Elapsed(e.lastUpdateMs, now) >= e.intervalMs}}
          /\ \A d \in activeStreams :
                IF d.type \in Invoked \ Failed
                THEN /\ [d EXCEPT !.lastUpdateMs = now] \in activeStreams'
                     /\ Elapsed(d.lastUpdateMs, now) >= d.intervalMs
                ELSE d \in activeStreams'
          /\ Types(activeStreams') = Types(activeStreams)]_vars

\* the clock has wrapped around since the stream produced last, and the
\* stream has just produced again
C17_ProducedAfterWrap ==
    /\ pc = "sleep"
    /\ now = MIN_STREAM_INTERVAL_MS - 1
    /\ HasStream(activeStreams, "as7341")
    /\ StreamOf(activeStreams, "as7341").lastUpdateMs = now
    /\ StreamOf(activeStreams, "as7341").intervalMs = MIN_STREAM_INTERVAL_MS
    /\ \E j \in DOMAIN calls :
        IsProduction(calls[j]) /\ calls[j].producer = "as7341" /\ calls[j].outcome
    /\ \E i \in DOMAIN tx : tx[i].kind = "data" /\ tx[i].type = "as7341"

\* C18: when the producer of a due stream fails, no Data envelope is written
\* for the stream, its lastUpdateMs is unchanged and it stays held and
\* active, so its producer is invoked again on the very next tick, a
\* millisecond later.
C18_FailedRetried ==
    [][Ticking
       => \A d \in activeStreams :
             d.type \in Failed
             => /\ \A i \in DOMAIN Written :
                      ~(Written[i].kind = "data" /\ Written[i].type = d.type)
                /\ d \in activeStreams'
                /\ d.active
                /\ Elapsed(d.lastUpdateMs, (now + 1) % (UINT32_MAX + 1))
                   >= d.intervalMs]_vars

\* the producer of a stream that never produced has failed at the last value
\* of the clock; a millisecond later the clock shows 0 and the stream is not due
C18_FailedAtWrap ==
    /\ pc = "sleep"
    /\ now = UINT32_MAX
    /\ HasStream(activeStreams, "as7341")
    /\ StreamOf(activeStreams, "as7341").lastUpdateMs = 0
    /\ StreamOf(activeStreams, "as7341").active
    /\ \E j \in DOMAIN calls :
        IsProduction(calls[j]) /\ calls[j].producer = "as7341" /\ ~calls[j].outcome
    /\ ~(UIntDiff(0, StreamOf(activeStreams, "as7341").lastUpdateMs)
         >= StreamOf(activeStreams, "as7341").intervalMs)

\* the log line stopStream writes
StopLog(text) == \E i \in DOMAIN Written : Written[i] = Log(text)

\* C19: stopStream of a held type returns true and removes the entry, which
\* no longer counts toward MAX_DATA_STREAMS; stopStream of a type that is not
\* held returns false and leaves the streams as they are.
C19_StopRemoves ==
    [][Stopping
       => IF HasStream(activeStreams, Requested)
          THEN /\ StopLog("Stopped stream")
               /\ "error" \notin DOMAIN Replies[1].data
               /\ activeStreams' = Others(activeStreams, Requested)
               /\ Cardinality(Types(activeStreams'))
                  = Cardinality(Types(activeStreams)) - 1
          ELSE /\ StopLog("Stream not found")
               /\ activeStreams' = activeStreams]_vars

\* three streams were held and one of them has just been stopped
C19_StoppedAtCap ==
    /\ boots = 0
    /\ arrived = MAX_DATA_STREAMS + 1
    /\ consumed = <<"{stopOther", "}", LF>>
    /\ Types(activeStreams) = {"as7341", "third"}
    /\ \E i \in DOMAIN tx :
        IsStopReply(tx[i]) /\ tx[i].data.type = "other" /\ tx[i].data.was_active

\* C20: every entry the scheduler holds is active, so isStreamActive(type) is
\* true exactly when the type is held.
C20_HeldIsActive ==
    /\ \A d \in activeStreams : d.active
    /\ \A k \in DOMAIN StreamKeys :
        IsStreamActive(activeStreams, StreamKeys[k])
        <=> StreamKeys[k] \in Types(activeStreams)

\* one stream has just been stopped while another is held
C20_OneStoppedOneHeld ==
    /\ consumed = <<"{stop", "}", LF>>
    /\ Types(activeStreams) = {"other"}
    /\ IsStreamActive(activeStreams, "other")
    /\ ~IsStreamActive(activeStreams, "as7341")
    /\ \E i \in DOMAIN tx :
        IsStopReply(tx[i]) /\ tx[i].data.type = "as7341" /\ tx[i].data.was_active

\* the order of the type keys: std::map<String, DataStream> keeps its keys in
\* ascending order of String::operator<, the order of their characters
Ascending ==
    {<<"as7341", "other">>, <<"as7341", "third">>, <<"as7341", "zeta">>,
     <<"other", "third">>, <<"other", "zeta">>, <<"third", "zeta">>}

\* the Data envelopes among the lines a step writes
DataWritten == SelectSeq(Written, LAMBDA l : l.kind = "data")

\* C21: within one tick the due streams are fired in ascending order of their
\* type key, whatever the order in which they were started: of two streams
\* fired in a tick the one with the smaller key has its producer invoked, and
\* its Data envelope written, first.
C21_FiredInKeyOrder ==
    [][Ticking
       => /\ \A i, j \in DOMAIN Productions :
                i < j => <<Productions[i].producer, Productions[j].producer>>
                         \in Ascending
          /\ \A i, j \in DOMAIN DataWritten :
                i < j => <<DataWritten[i].type, DataWritten[j].type>> \in Ascending]_vars

\* the stream as7341 was started in this pass of loop(), after the stream
\* other; the tick invoked the producer of as7341 first and that of other next
C21_LaterStartedFiredFirst ==
    /\ pc = "sleep"
    /\ JustStarted("as7341")
    /\ HasStream(activeStreams, "other")
    /\ Len(calls) = 3
    /\ IsProduction(calls[2]) /\ calls[2].producer = "as7341" /\ calls[2].outcome
    /\ IsProduction(calls[3]) /\ calls[3].producer = "other"
    /\ \E i \in DOMAIN tx : tx[i].kind = "data" /\ tx[i].type = "as7341"

\* a step of Process in which handleGetStreams returns
Listing ==
    /\ Dispatching /\ IsCommand
    /\ Command.cmd = "get_streams"
    /\ Outcome = "returned"

\* the Response of handleGetStreams
IsListReply(l) == IsResponse(l) /\ l.resp = "data" /\ "streams" \in DOMAIN l.data

\* C22: get_streams returns, in key order, one element {type, interval_ms}
\* for every stream the scheduler holds and no other element, interval_ms
\* being the interval the stream holds, and count is the number of elements.
C22_StreamsListed ==
    [][Listing
       => \E list \in {Replies[1].data.streams} :
             /\ Replies[1].data.count = Len(list)
             /\ Len(list) = Cardinality(activeStreams)
             /\ \A i \in DOMAIN list :
                   /\ DOMAIN list[i] = {"type", "interval_ms"}
                   /\ \E d \in activeStreams :
                         d.type = list[i].type /\ d.intervalMs = list[i].interval_ms
             /\ \A d \in activeStreams : \E i \in DOMAIN list : list[i].type = d.type
             /\ \A i, j \in DOMAIN list :
                   i < j => <<list[i].type, list[j].type>> \in Ascending]_vars

\* get_streams has been answered with the two streams held, as7341 with the
\* maximum interval before other with the minimum interval
C22_TwoListed ==
    /\ consumed = <<"{streams", "}", LF>>
    /\ Cardinality(activeStreams) = 2
    /\ \E i \in DOMAIN tx :
        /\ IsListReply(tx[i])
        /\ tx[i].data.count = 2
        /\ tx[i].data.streams
           = <<[type |-> "as7341", interval_ms |-> MAX_STREAM_INTERVAL_MS],
               [type |-> "other", interval_ms |-> MIN_STREAM_INTERVAL_MS]>>

\* a step of Process in which handleResetDevice runs and restarts the device
Resetting ==
    /\ Dispatching /\ IsCommand
    /\ Command.cmd = "reset"
    /\ Outcome = "restarted"

\* how often a debug line is among lines
Count(lines, text) == Len(SelectSeq(lines, LAMBDA l : l = Log(text)))

\* C23: stopAllStreams removes every entry, whatever the scheduler holds:
\* after it no stream is held, a tick that follows invokes no producer, and
\* MAX_DATA_STREAMS new types can be started again.
C23_StopAllRemovesAll ==
    [][/\ Resetting
          => /\ StopAllStreams(activeStreams, 1).streams = {}
             /\ Count(Written, "Stopped stream") = Cardinality(activeStreams)
             /\ Count(Written, "Stream not found") = 0
             /\ Count(Written, "Stopped all streams") = 1
             /\ activeStreams' = {}
       /\ Ticking /\ activeStreams = {} => Productions = <<>> /\ activeStreams' = {}
       /\ Starting /\ Cardinality(Types(activeStreams)) < MAX_DATA_STREAMS
          => StartReturned /\ HasStream(activeStreams', Requested)]_vars

\* two streams were held when reset was handled: both were stopped, and the
\* scheduler of the restarted device holds none
C23_TwoStoppedByReset ==
    /\ boots = 1
    /\ consumed = <<>>
    /\ activeStreams = {}
    /\ Count(tx, "Stopped stream") = 2
    /\ Count(tx, "Stopped all streams") = 1

\* C24: reset performs its steps in this order: all streams stopped, both
\* LEDs disabled, one success Response with the command's id written, and
\* only then the restart; the device never restarts before the Response line
\* is sent.
C24_RespondsThenRestarts ==
    [][Resetting
       => \E k \in DOMAIN Written :
             /\ IsResponse(Written[k])
             /\ Written[k].resp = "data"
             /\ Written[k].status = SUCCESS
             /\ HasId => Written[k].id = Command.id
             /\ \A j \in DOMAIN Written : IsResponse(Written[j]) => j = k
             /\ \E a, b \in 1 .. k - 1 :
                   /\ a < b
                   /\ Written[a] = Log("Stopped all streams")
                   /\ Written[b] = Log("External LED not configured")
             /\ \E r \in k + 1 .. Len(Written) :
                   Written[r].kind = "event" /\ Written[r].type = "device_ready"]_vars

\* reset was handled while a stream was held: the stream was stopped and the
\* device has restarted, and no Response was written
C24_RestartedWithoutResponse ==
    /\ boots = 1
    /\ consumed = <<>>
    /\ Count(tx, "Stopped stream") = 1
    /\ \E a, r \in DOMAIN tx :
        /\ a < r
        /\ tx[a] = Log("Stopped all streams")
        /\ tx[r].kind = "event" /\ tx[r].type = "device_ready"
    /\ Responses(tx) = <<>>

\* whether a sequence starts with another
StartsWith(q, p) == Len(p) <= Len(q) /\ SubSeq(q, 1, Len(p)) = p

C26_OnlyEnvelopes == \A i \in DOMAIN tx : IsEnvelope(tx[i])

\* a stream command has been answered: the debug line of processCommand and
\* the debug line of sendJsonDocument stand around the Response on the channel
C26_DebugLinesAroundResponse ==
    \E i \in DOMAIN tx :
        /\ IsResponse(tx[i])
        /\ i + 1 \in DOMAIN tx /\ tx[i + 1] = Log("Sent JSON")
        /\ \E j \in 1 .. i - 1 : tx[j] = Log("Received command")

\* a Data envelope of as7341 has just been written by a tick
DataJustWritten ==
    /\ pc = "sleep"
    /\ \E i \in DOMAIN tx : tx[i].kind = "data" /\ tx[i].type = "as7341"

\* C27: if loop() keeps running, the clock keeps advancing and the producer
\* succeeds, a stream that stays started writes Data envelopes again and
\* again, whatever other streams are held and whatever commands arrive; and
\* every command received while streams are held is eventually answered.
C27_NoStarvation ==
    /\ []<>(~HasStream(activeStreams, "as7341") \/ DataJustWritten)
    /\ (commandQueue # <<>> /\ activeStreams # {})
       ~> (commandQueue = <<>> /\ Responses(tx) # <<>>)

\* reset was the last command the host sent, received while a stream was
\* held; the device has restarted and the command stays without a Response
C27_LastCommandUnanswered ==
    /\ boots = 1
    /\ arrived = MaxLiveLines
    /\ rx = <<>> /\ commandQueue = <<>>
    /\ Count(tx, "Stopped stream") >= 1
    /\ Responses(tx) = <<>>

\* a step of Process that dispatches as7341_config to the driver, which
\* answers on the bus
Configuring ==
    /\ Dispatching /\ IsCommand
    /\ Command.cmd = "as7341_config"
    /\ Outcome = "returned"
    /\ sensor'.initialized
    /\ \A i \in DOMAIN Written : Written[i] # Log("Failed to set gain")

\* the parameters of as7341_config as the host wrote them
SentGain == IF containsKey(Params, "gain") THEN Params.gain ELSE DEFAULT_GAIN

SentTime ==
    IF containsKey(Params, "integration_time") THEN Params.integration_time
    ELSE DEFAULT_ATIME

SentCurrent ==
    IF containsKey(Params, "led_current") THEN Params.led_current
    ELSE DEFAULT_LED_CURRENT

\* C28: as7341_config is answered with a data Response of status SUCCESS;
\* the Response carries a warning exactly if the gain the host sent is
\* outside 0..10, the integration time outside 1..1000 or the LED current
\* above MAX_LED_CURRENT, and the driver then holds the default gain, the
\* default integration time, the maximum LED current in place of the value.
C28_InvalidWarned ==
    [][Configuring
       => /\ Len(Replies) = 1
          /\ Replies[1].resp = "data" /\ Replies[1].status = SUCCESS
          /\ "warning" \in DOMAIN Replies[1].data
             <=> \/ SentGain \notin 0 .. 10
                 \/ SentTime \notin 1 .. 1000
                 \/ SentCurrent > MAX_LED_CURRENT
          /\ sensor'.currentGain =
                IF SentGain \in 0 .. 10 THEN SentGain ELSE DEFAULT_GAIN
          /\ sensor'.currentIntegrationTime =
                IF SentTime \in 1 .. 1000 THEN SentTime ELSE DEFAULT_ATIME
          /\ SentCurrent > MAX_LED_CURRENT
             => sensor'.currentLedCurrent = MAX_LED_CURRENT]_vars

\* a gain of 256 has been answered without a warning and a gain of 0 applied
C28_GainWrappedUnwarned ==
    /\ pc = "process"
    /\ \E i \in DOMAIN tx :
        /\ IsResponse(tx[i]) /\ tx[i].id = 4 /\ tx[i].status = SUCCESS
        /\ "warning" \notin DOMAIN tx[i].data
        /\ tx[i].data.gain = 0
        /\ tx[i].data.integration_time = DEFAULT_ATIME
    /\ sensor.currentGain = 0

\* the names registerCommands registers
StandardNames ==
    {"ping", "get_info", "as7341_init", "as7341_config", "as7341_read", "as7341_led",
     "stream_start", "stream_stop", "get_streams", "reset", "diagnostics"}

\* C29: the registry holds exactly the eleven standard names, and no step,
\* the dispatch of a known or of an unknown command included, adds, removes
\* or replaces an entry of it.
C29_RegistryFixed ==
    [][/\ DOMAIN commandHandlers = StandardNames
       /\ Cardinality(StandardNames) = 11
       /\ commandHandlers' = commandHandlers]_vars

\* an unknown command, a known one and a reset have been dispatched
C29_KnownAndUnknownDispatched ==
    /\ boots = 1
    /\ arrived = 3
    /\ pc = "sleep"
    /\ \E i \in DOMAIN tx : IsResponse(tx[i]) /\ tx[i].status = INVALID_COMMAND
    /\ DOMAIN commandHandlers = StandardNames

\* the number of times the watchdog has been serviced since loop() was entered
Services == Cardinality({i \in DOMAIN iteration : iteration[i] = "esp_task_wdt_reset"})

\* C30: every iteration of loop() services the watchdog exactly once, before
\* input is drained: whatever the dispatch loop, the tick and the sleep
\* check do, the watchdog has been serviced once and first in the iteration
\* they belong to, the iteration ends only by loop() being entered again or
\* by the restart of reset, and loop() is entered and the watchdog serviced
\* again and again.
C30_WatchdogServiced ==
    /\ [][/\ Reading
             => /\ iteration = <<>>
                /\ iteration' = <<"esp_task_wdt_reset", "protocol.update">>
          /\ (Dispatching \/ Ticking \/ pc = "sleep")
             => /\ Services = 1
                /\ Head(iteration) = "esp_task_wdt_reset"
                /\ \/ iteration' = iteration
                   \/ iteration' = Append(iteration, "streaming.update")
                   \/ iteration' = <<>> /\ pc' = "loop"
                                 /\ (pc = "sleep" \/ Resetting)]_vars
    /\ []<>(pc = "process" /\ Services = 1 /\ commandQueue = <<>>)

\* an iteration that dispatched a command and ran the tick is at its sleep
\* check, the watchdog serviced once
C30_ServicedBeforeDispatchAndTick ==
    /\ pc = "sleep"
    /\ Len(calls) >= 2
    /\ iteration = <<"esp_task_wdt_reset", "protocol.update", "streaming.update">>

\* a tick in which the producer of as7341 found that the port had taken fewer
\* bytes than the envelope has
WriteFailed ==
    /\ Ticking
    /\ \E i \in DOMAIN Written : Written[i] = Log("Failed to send AS7341 data")

\* C31: when the producer of as7341 fails because the transport took fewer
\* bytes than the Data envelope has, the fire is reported as failed,
\* lastUpdateMs of the stream is unchanged and no part of the envelope has
\* been written to the transport.
C31_FailedWriteLeavesNothing ==
    [][WriteFailed
       => /\ \E j \in Len(calls) + 1 .. Len(calls') :
                calls'[j] = [producer |-> "as7341", outcome |-> FALSE]
          /\ StreamOf(activeStreams', "as7341") = StreamOf(activeStreams, "as7341")
          /\ \A i \in DOMAIN Written : Written[i].kind \notin {"data", "part"}]_vars

\* the producer of as7341 has failed on a short write, and the bytes the port
\* took are on the transport
C31_PartOfEnvelopeWritten ==
    /\ pc = "sleep"
    /\ \E j \in DOMAIN calls : calls[j] = [producer |-> "as7341", outcome |-> FALSE]
    /\ \E i \in DOMAIN tx :
        /\ tx[i].kind = "part" /\ tx[i].of.kind = "data" /\ tx[i].of.type = "as7341"
        /\ i + 2 \in DOMAIN tx
        /\ tx[i + 1] = Log("Sent JSON")
        /\ tx[i + 2] = Log("Failed to send AS7341 data")

\* C32: the command queue never holds more than CMD_BUFFER_SIZE commands,
\* however many complete lines wait on the transport when Protocol::update
\* runs.
C32_QueueWithinBuffer == Len(commandQueue) <= CMD_BUFFER_SIZE

\* six lines waited on the transport and the read loop has queued them all
C32_SixQueued ==
    /\ pc = "process"
    /\ Len(commandQueue) = CMD_BUFFER_SIZE + 1
    /\ calls = <<>>

\* the step that ends an iteration of loop() by entering light sleep
Sleeping ==
    /\ pc = "sleep" /\ pc' = "loop"
    /\ \E i \in DOMAIN Written : Written[i] = Log("Entering light sleep mode")

\* a command was dispatched in the iteration of loop() that is under way
CommandThisIteration == \E j \in DOMAIN calls : "handler" \in DOMAIN calls[j]

\* C33: with power saving enabled the device enters light sleep only when
\* there was no activity for more than SLEEP_AFTER_IDLE_MS: the dispatch of
\* a command sets the activity timestamp to the time of the dispatch, so
\* that no sleep is entered in the iteration that received a command; the
\* sleep check runs once per iteration, after the scheduler tick.
C33_CommandPreventsSleep ==
    [][/\ (Dispatching /\ IsCommand /\ Outcome # "restarted")
          => lastActivityTime' = now
       /\ Sleeping
          => /\ UIntDiff(now, lastActivityTime) > SLEEP_AFTER_IDLE_MS
             /\ ~CommandThisIteration
       /\ (pc = "sleep" /\ pc' = "loop")
          => iteration = <<"esp_task_wdt_reset", "protocol.update",
                           "streaming.update">>]_vars

\* the device has gone to sleep at the end of the very iteration in which it
\* answered a command
C33_SleptAfterCommand ==
    /\ pc = "loop"
    /\ CommandThisIteration
    /\ \E i \in DOMAIN tx : IsResponse(tx[i]) /\ tx[i].status = SUCCESS
    /\ \E i \in DOMAIN tx : tx[i] = Log("Entering light sleep mode")

\* C34: the Response to an accepted stream_start is written before the first
\* Data envelope of the stream, and once a stream_stop of a type is answered,
\* or a reset dispatched, no Data envelope of the type is written until a
\* later stream_start of it is accepted: Data envelopes are written by the
\* tick alone and for streams held when it begins, a stream comes to be held
\* only in the step that writes the Response of its accepted start, and the
\* step that answers its stop, or dispatches a reset, leaves it not held.
C34_ControlBeforeData ==
    [][/\ \A i \in DOMAIN DataWritten :
            Ticking /\ HasStream(activeStreams, DataWritten[i].type)
       /\ \A type \in Types(activeStreams') \ Types(activeStreams) :
            /\ Starting /\ Requested = type
            /\ Len(Replies) = 1 /\ IsStartReply(Replies[1])
            /\ Replies[1].data.active
            /\ DataWritten = <<>>
       /\ Stopping
          => /\ Len(Replies) = 1 /\ IsStopReply(Replies[1])
             /\ ~HasStream(activeStreams', Requested)
             /\ DataWritten = <<>>
       /\ Resetting => activeStreams' = {} /\ DataWritten = <<>>]_vars

\* a stream was started and fired in the same iteration: the Response of the
\* start stands before the stream's first Data envelope
C34_StartAnsweredThenData ==
    /\ pc = "sleep"
    /\ \E i, j \in DOMAIN tx :
        /\ i < j
        /\ IsStartReply(tx[i]) /\ tx[i].data.active /\ tx[i].data.type = "as7341"
        /\ tx[j].kind = "data" /\ tx[j].type = "as7341"
        /\ \A k \in 1 .. j - 1 : tx[k].kind # "data"

\* the status codes the firmware writes
WireStatus == {SUCCESS, INVALID_COMMAND, EXECUTION_ERROR}

\* a step of Process that dispatches stream_start or stream_stop without a
\* type parameter
Untyped ==
    /\ Dispatching /\ IsCommand
    /\ Command.cmd \in {"stream_start", "stream_stop"}
    /\ ~containsKey(Params, "type")
    /\ Outcome = "returned"

\* C35: the only status codes on the wire are 0, 1 and 3; a handler that
\* returns yields one Response of resp "data" and status 0, also when it
\* reports a failure; stream_start and stream_stop without a type parameter
\* change no stream and are answered with status 0 and an error member.
C35_StatusOnWire ==
    [][/\ \A i \in DOMAIN Replies : Replies[i].status \in WireStatus
       /\ (Dispatching /\ Outcome = "returned")
          => /\ Len(Replies) = 1
             /\ Replies[1].resp = "data" /\ Replies[1].status = SUCCESS
       /\ Untyped
          => /\ activeStreams' = activeStreams
             /\ Replies[1].status = SUCCESS
             /\ "error" \in DOMAIN Replies[1].data]_vars

\* a stream_stop without a type has been answered with status 0 and an error
\* member while a stream is held, which is still held
C35_UntypedStopAnswered ==
    /\ pc = "process"
    /\ HasStream(activeStreams, "as7341")
    /\ \E i \in DOMAIN tx :
        /\ IsResponse(tx[i]) /\ tx[i].id = 6 /\ tx[i].status = SUCCESS
        /\ tx[i].resp = "data"
        /\ tx[i].data = [error |-> "Missing stream type"]

\* C36: the Response of stream_start agrees with the scheduler after the
\* command: active is true exactly if the type is held, and interval_ms is
\* the interval the scheduler holds for the type, whatever interval was
\* asked for.
C36_StartReplyAgrees ==
    [][Starting
       => /\ Replies[1].data.active <=> HasStream(activeStreams', Requested)
          /\ HasStream(activeStreams', Requested)
             => Replies[1].data.interval_ms
                = StreamOf(activeStreams', Requested).intervalMs]_vars

\* a start with an interval of 1 ms has been answered with interval_ms 1
\* while the scheduler holds the stream with MIN_STREAM_INTERVAL_MS
C36_ReplyBelowStoredInterval ==
    /\ pc = "process"
    /\ HasStream(activeStreams, "as7341")
    /\ StreamOf(activeStreams, "as7341").intervalMs = MIN_STREAM_INTERVAL_MS
    /\ \E i \in DOMAIN tx :
        /\ IsStartReply(tx[i]) /\ tx[i].data.active
        /\ tx[i].data.type = "as7341"
        /\ tx[i].data.interval_ms = 1
    /\ \A i \in DOMAIN tx : ~IsStopReply(tx[i])

\* the streams held for which no producer exists
Producerless(streams) == {d \in streams : d.type # "as7341"}

\* C37: a stream type for which no producer exists is accepted by
\* startStream like any other and counts toward MAX_DATA_STREAMS; it never
\* writes a Data envelope and its lastUpdateMs never advances, so that once
\* its producer has been invoked it is invoked again on the next tick, a
\* millisecond later, as long as it is held.
C37_ProducerlessRetried ==
    [][/\ (Starting /\ Requested # "as7341")
          => IF \/ HasStream(activeStreams, Requested)
                \/ Cardinality(Types(activeStreams)) < MAX_DATA_STREAMS
             THEN HasStream(activeStreams', Requested) /\ Replies[1].data.active
             ELSE activeStreams' = activeStreams /\ ~Replies[1].data.active
       /\ (Starting /\ ~HasStream(activeStreams, Requested)
           /\ Cardinality(Types(Producerless(activeStreams))) = MAX_DATA_STREAMS)
          => ~Replies[1].data.active
       /\ \A i \in DOMAIN DataWritten : DataWritten[i].type = "as7341"
       /\ \A d \in Producerless(activeStreams') : d.lastUpdateMs = 0
       /\ Ticking
          => \A d \in Producerless(activeStreams) :
                d.type \in Invoked
                => /\ d.type \in Failed
                   /\ d \in activeStreams'
                   /\ Elapsed(d.lastUpdateMs, (now + 1) % (UINT32_MAX + 1))
                      >= d.intervalMs]_vars

\* the producer of a stream without producer was invoked at the last value of
\* the clock; a millisecond later the clock shows 0 and the stream is not due
C37_ProducerlessNotDueAfterWrap ==
    /\ pc = "sleep"
    /\ now = UINT32_MAX
    /\ HasStream(activeStreams, "other")
    /\ StreamOf(activeStreams, "other").lastUpdateMs = 0
    /\ \E j \in DOMAIN calls :
        IsProduction(calls[j]) /\ calls[j].producer = "other" /\ ~calls[j].outcome
    /\ ~(UIntDiff(0, StreamOf(activeStreams, "other").lastUpdateMs)
         >= StreamOf(activeStreams, "other").intervalMs)

\* C38: a scheduler tick changes nothing but lastUpdateMs of the streams
\* whose producer it invoked with success, which becomes the time of the
\* tick: it adds and removes no stream, changes no interval and no active
\* flag, and leaves the line buffer, the command queue and the registry as
\* they are.
C38_TickFrame ==
    [][Ticking
       => /\ activeStreams'
             = {[d EXCEPT !.lastUpdateMs = IF d.type \in Invoked \ Failed THEN now
                                           ELSE d.lastUpdateMs] : d \in activeStreams}
          /\ commandBuffer' = commandBuffer
          /\ bufferPos' = bufferPos
          /\ commandQueue' = commandQueue
          /\ commandHandlers' = commandHandlers]_vars

\* a tick with two streams due has stamped the one that produced and left
\* the other, whose producer failed, as it was
C38_OneStampedOneLeft ==
    /\ pc = "sleep"
    /\ now = MIN_STREAM_INTERVAL_MS
    /\ HasStream(activeStreams, "as7341") /\ HasStream(activeStreams, "other")
    /\ StreamOf(activeStreams, "as7341").lastUpdateMs = now
    /\ StreamOf(activeStreams, "other").lastUpdateMs = 0
    /\ Len(calls) >= 2

\* a step of Process that takes a command without an id member
Idless == Dispatching /\ IsCommand /\ ~HasId

\* C39: a record with a cmd member and no id member (and no params member)
\* is a command like any other: its handler is called and it is answered
\* with exactly one Response, whose id is 0.
C39_IdlessAnswered ==
    [][Idless
       => /\ Len(calls') = Len(calls) + 1
          /\ Len(Replies) = 1
          /\ Replies[1].id = 0]_vars

\* a reset without an id member has restarted the device and no Response was
\* written for it
C39_IdlessResetUnanswered ==
    /\ boots = 1
    /\ arrived = 1
    /\ pc = "loop"
    /\ Responses(tx) = <<>>
    /\ \E i \in DOMAIN tx : tx[i] = Log("Received command")
    /\ \E i \in DOMAIN tx : tx[i].kind = "event" /\ tx[i].type = "device_ready"

\* C40: the write position of the line buffer is always within
\* 0 .. JSON_BUFFER_SIZE - 1 and the buffer holds NUL from there on, so that
\* every byte and the terminating NUL are stored inside commandBuffer; and
\* a call of Protocol::update ends with the command queue empty, every
\* record its read loop queued having been taken off the front once.
C40_BufferAndQueueBounded ==
    [][/\ bufferPos \in 0 .. JSON_BUFFER_SIZE - 1
       /\ bufferPos' \in 0 .. JSON_BUFFER_SIZE - 1
       /\ \A i \in bufferPos' .. JSON_BUFFER_SIZE - 1 : commandBuffer'[i] = NUL
       /\ Reading => commandQueue = <<>>
       /\ Dispatching => commandQueue' = Tail(commandQueue)
       /\ Ticking => commandQueue = <<>>
       /\ pc' # "process" => commandQueue' = <<>>]_vars

\* a line of more bytes than the buffer holds has been read, cut to the
\* buffer's capacity, queued, taken off the queue and answered
C40_OverlongLineQueuedAndProcessed ==
    /\ pc = "sleep"
    /\ bufferPos = 0
    /\ Len(consumed) = JSON_BUFFER_SIZE + 1
    /\ \A i \in 1 .. JSON_BUFFER_SIZE : consumed[i] \notin {LF, CR, NUL}
    /\ consumed[JSON_BUFFER_SIZE + 1] = LF
    /\ commandQueue = <<>>
    /\ tx # <<>>

====
